---- MODULE Spec2Model ----
(***************************************************************************)
(* Collector-to-central sync pipeline of meshtastic-monitor.               *)
(*                                                                         *)
(*   Spec      the Local Store (mesh_monitor/db.py), one SyncService cycle *)
(*             after another (mesh_monitor/sync.py: sync_once) and the     *)
(*             Central Merge Service (synology/sync_api/app.py), with the  *)
(*             ingesting collector process mutating the Local Store        *)
(*             between any two steps of a cycle.                           *)
(*   SpecMerge the Central Merge Service alone, handling arbitrary         *)
(*             requests.                                                   *)
(*   SpecLife  start(), stop() and the loop threads of one SyncService,    *)
(*             called from two threads.                                    *)
(*   SpecLoop  one loop thread (_sync_loop) from its first line to its     *)
(*             exit, with its backoff and its waits, and stop().           *)
(*   SpecStore the operations of the Local Store called in any order.      *)
(*   SpecDrain sync_once called repeatedly on a store with a backlog that  *)
(*             nothing else writes to.                                     *)
(*   SpecAuth  the API key check of the Central Merge Service, for every   *)
(*             API_KEYS setting.                                           *)
(*   SpecCollector  MeshCollector's connect, disconnect and stop.         *)
(*   SpecRun   the standalone sync process (run_sync_service) from the     *)
(*             validation of its configuration to its interruption.        *)
(***************************************************************************)
EXTENDS Integers, FiniteSets, Sequences, TLC

----------------------------------------------------------------------------
(* Bounds of the model                                                     *)

\* number of local store mutations (upserts and inserts) the collector
\* process makes while the sync process runs
MaxIngest == 1
\* the logical clock runs from 1 to MaxTime
MaxTime == 2
\* number of sync_once calls of one run
MaxCycles == 2
\* number of requests the service handles in one run of SpecMerge
MaxPosts == 2
\* number of start() and stop() calls of one run of SpecLife
MaxCalls == 3
\* number of loop threads start() creates in one run of SpecLife
MaxThreads == 2
\* number of consecutive failed cycles of one run of SpecLoop
MaxFails == 10
\* rows per table of the backlog SpecDrain starts with, and the largest
\* limit given to get_unsynced_records there
MaxRows == 3
MaxLimit == 2
\* number of times the standalone sync process is run in SpecRun
MaxRuns == 2
\* number of Local Store calls of one run of SpecStore
MaxOps == 2

----------------------------------------------------------------------------
(* Values                                                                  *)

\* SQL NULL of a text column / of a timestamp column / an absent value
NULL == "null"
NullTime == 0 - 1
None == [none |-> TRUE]

NodeIds == {"!n1"}
\* arguments of upsert_node: <<long_name, short_name>>
NodeArgs == {<<"A", NULL>>, <<"B", NULL>>, <<NULL, "S">>}
GatewayKeys == {[host |-> "gw1", port |-> 4403]}
CollectorId == "pi-alpha"
\* a second collector posting to the same service
OtherCollectorId == "pi-beta"

\* the five entity tables, in the order get_unsynced_records reads them
TableOrder == <<"nodes", "positions", "device_metrics", "messages", "gateways">>
Tables == {TableOrder[i] : i \in 1..Len(TableOrder)}
AppendTables == {"positions", "device_metrics", "messages"}

COALESCE(a, b) == IF a # NULL THEN a ELSE b

Max2_incoming(a, b) == b

\* GREATEST(a, b) of two timestamps that are not NULL
Max2(a, b) == IF a >= b THEN a ELSE b

----------------------------------------------------------------------------
VARIABLES
    now,        \* wall clock (CURRENT_TIMESTAMP, datetime.now(), NOW())
    ldb,        \* Local Store: table name -> set of rows
    ingested,   \* number of local mutations so far
    cycles,     \* number of sync_once calls so far
    config,     \* CollectorConfig of the sync process
    pc,         \* where sync_once stands: idle, read, await, mark
    rd,         \* index in TableOrder of the next table get_unsynced_records reads
    unsynced,   \* sync_once's local `unsynced`: table name -> set of rows read
    net,        \* the HTTP exchange in flight: None, or request and response
    result,     \* what the last sync_once returned or raised
    cdb,        \* Central Store: table name -> set of rows
    acked,      \* history: <<table, identifier>> of rows of batches answered 2xx
    dirtied,    \* history: <<table, identifier>> upserted after being read into
                \* the batch of the cycle in progress
    mutated,    \* history: the collector process has written to the Local
                \* Store since the sync_once in progress (or the last one) began
    marked,     \* history: the <<table, identifier>> ever passed to
                \* mark_synced, and those of them not upserted since
    call,       \* SpecStore, history: the last call of a Local Store
                \* operation, its arguments and what it returned
    given,      \* SpecStore, history: per node the last non-null name each
                \* upsert_node call supplied; per gateway key the last
                \* non-null node_id supplied and the ids returned
    merge,      \* SpecMerge, history: the last request the service handled,
                \* the Central Store before it and the response status
    stop_event,   \* SyncService._stop_event is set
    sync_thread,  \* SyncService._sync_thread: index in threads, 0 for None
    threads,      \* the loop threads created so far
    callers,      \* the threads calling start() and stop()
    calls,        \* number of start() and of stop() calls so far
    sync_enabled, \* config.sync_enabled
    collector,    \* SpecCollector: MeshCollector's interfaces and gateway_ids
                  \* dicts, the position of each thread calling it, and
                  \* history of the interfaces opened and the last calls
    run,          \* SpecRun: position of run_sync_service, the errors validate
                  \* returned, whether the Local Store is open and the loop
                  \* thread runs, and the number of sync_once calls
    loop          \* SpecLoop: one _sync_loop thread, its locals backoff and
                  \* position, config.sync_interval, and history of the last
                  \* cycle and the last wait

vars == <<now, ldb, ingested, cycles, config, pc, rd, unsynced, net, result, cdb,
          acked, dirtied, mutated, marked, call, given, merge, stop_event, sync_thread, threads, callers, calls,
          sync_enabled, collector, run, loop>>

lifeVars == <<stop_event, sync_thread, threads, callers, calls, sync_enabled,
             collector, run, loop>>

pipeVars == <<now, ldb, ingested, cycles, config, pc, rd, unsynced, net, result,
              cdb, acked, dirtied, mutated, marked, call, given>>

\* no request handled yet
NoMerge == [n |-> 0]

\* run_sync_service has not been called
NoRun == [pc |-> "load", errors |-> <<>>, db_open |-> FALSE, looping |-> FALSE,
          cycles |-> 0, env_id |-> NULL, id_file |-> NULL, collector_id |-> NULL,
          first_id |-> NULL, runs |-> 1]

\* mark_synced has not been called
NoMarks == [last |-> {}, ever |-> {}]

\* the (host, port) keys of SpecStore
StoreGatewayKeys == GatewayKeys \cup {[host |-> "gw2", port |-> 4403]}

\* no Local Store operation has been called
NoCall == [op |-> "none"]

\* no upsert has supplied or returned anything
NoGiven ==
    [nodes |-> [n \in NodeIds |-> [long_name |-> NULL, short_name |-> NULL]],
     gateways |-> [k \in StoreGatewayKeys |-> [node_id |-> NULL, ids |-> {}]]]

\* _sync_loop at its first line, with the sync_interval given (history:
\* before is the backoff the last cycle began with)
LoopStart(interval) ==
    [pc |-> "top", backoff |-> 1, interval |-> interval, wait |-> 0,
     fails |-> 0, last |-> "none", ended |-> "none", before |-> 1]

----------------------------------------------------------------------------
(* Local Store, mesh_monitor/db.py                                         *)

EmptyTables == [t \in Tables |-> {}]

\* identifier of a row for mark_synced: node_id for nodes, id for the others
RowKey(t, r) == IF t = "nodes" THEN r.node_id ELSE r.id

\* AUTOINCREMENT primary key: rows are never deleted
NextId(rows) == Cardinality(rows) + 1

\* an upsert_node whose UPDATE takes the incoming names as they are
upsert_node_overwrite(db, node_id, long_name, short_name, ts) ==
    LET old == {r \in db.nodes : r.node_id = node_id}
        new == IF old = {}
               THEN [node_id |-> node_id, long_name |-> long_name,
                     short_name |-> short_name, first_seen |-> ts,
                     last_seen |-> ts, collector_id |-> CollectorId,
                     synced_at |-> NullTime]
               ELSE LET o == CHOOSE r \in old : TRUE
                    IN [o EXCEPT !.long_name = long_name,
                                 !.short_name = short_name,
                                 !.last_seen = ts,
                                 !.synced_at = NullTime]
    IN [db EXCEPT !.nodes = (db.nodes \ old) \cup {new}]

\* an upsert_node whose UPDATE leaves synced_at as it is
upsert_node_keeps_marker(db, node_id, long_name, short_name, ts) ==
    LET old == {r \in db.nodes : r.node_id = node_id}
        new == IF old = {}
               THEN [node_id |-> node_id, long_name |-> long_name,
                     short_name |-> short_name, first_seen |-> ts,
                     last_seen |-> ts, collector_id |-> CollectorId,
                     synced_at |-> NullTime]
               ELSE LET o == CHOOSE r \in old : TRUE
                    IN [o EXCEPT !.long_name = COALESCE(long_name, o.long_name),
                                 !.short_name = COALESCE(short_name, o.short_name),
                                 !.last_seen = ts]
    IN [db EXCEPT !.nodes = (db.nodes \ old) \cup {new}]

\* INSERT INTO nodes ... ON CONFLICT(node_id) DO UPDATE SET ...
upsert_node(db, node_id, long_name, short_name, ts) ==
    LET old == {r \in db.nodes : r.node_id = node_id}
        new == IF old = {}
               THEN [node_id |-> node_id, long_name |-> long_name,
                     short_name |-> short_name, first_seen |-> ts,
                     last_seen |-> ts, collector_id |-> CollectorId,
                     synced_at |-> NullTime]
               ELSE LET o == CHOOSE r \in old : TRUE
                    IN [o EXCEPT !.long_name = COALESCE(long_name, o.long_name),
                                 !.short_name = COALESCE(short_name, o.short_name),
                                 !.last_seen = ts,
                                 !.synced_at = NullTime]
    IN [db EXCEPT !.nodes = (db.nodes \ old) \cup {new}]

\* an upsert_gateway without the ON CONFLICT clause: every call inserts
upsert_gateway_insert_only(db, key, node_id, ts) ==
    [db EXCEPT !.gateways = db.gateways \cup
        {[id |-> NextId(db.gateways), host |-> key.host, port |-> key.port,
          node_id |-> node_id, first_seen |-> ts, last_seen |-> ts,
          collector_id |-> CollectorId, synced_at |-> NullTime]}]

\* INSERT INTO gateways ... ON CONFLICT(host, port) DO UPDATE SET ...
upsert_gateway(db, key, node_id, ts) ==
    LET old == {r \in db.gateways : r.host = key.host /\ r.port = key.port}
        new == IF old = {}
               THEN [id |-> NextId(db.gateways), host |-> key.host,
                     port |-> key.port, node_id |-> node_id, first_seen |-> ts,
                     last_seen |-> ts, collector_id |-> CollectorId,
                     synced_at |-> NullTime]
               ELSE LET o == CHOOSE r \in old : TRUE
                    IN [o EXCEPT !.node_id = COALESCE(node_id, o.node_id),
                                 !.last_seen = ts,
                                 !.synced_at = NullTime]
    IN [db EXCEPT !.gateways = (db.gateways \ old) \cup {new}]

\* insert_position / insert_device_metrics: pure append, synced_at left unset
insert_reading(db, t, node_id, ts) ==
    [db EXCEPT ![t] = db[t] \cup
        {[id |-> NextId(db[t]), node_id |-> node_id, timestamp |-> ts,
          collector_id |-> CollectorId, synced_at |-> NullTime]}]

\* insert_message: pure append, synced_at left unset
insert_message(db, from_node, text, ts) ==
    [db EXCEPT !.messages = db.messages \cup
        {[id |-> NextId(db.messages), timestamp |-> ts, from_node |-> from_node,
          text |-> text, collector_id |-> CollectorId, synced_at |-> NullTime]}]

\* SELECT * FROM <t> WHERE synced_at IS NULL LIMIT ?  (no ORDER BY: any
\* `limit` of the unsynced rows may come back)
SyncLimit == 1000

select_unsynced_all(rows, limit) == {{r \in rows : r.synced_at = NullTime}}

select_unsynced(rows, limit) ==
    LET un == {r \in rows : r.synced_at = NullTime}
    IN IF Cardinality(un) <= limit THEN {un}
       ELSE {s \in SUBSET un : Cardinality(s) = limit}

\* sync.py _extract_record_ids
extract_record_ids(un) == [t \in Tables |-> {RowKey(t, r) : r \in un[t]}]

\* a mark_synced whose UPDATE has no WHERE clause
mark_synced_whole_table(db, records, ts) ==
    [t \in Tables |->
        {IF records[t] # {} THEN [r EXCEPT !.synced_at = ts] ELSE r : r \in db[t]}]

\* UPDATE <t> SET synced_at = ? WHERE <key> IN (...), for every table with a
\* non-empty list, in one transaction
mark_synced_purge(db, records, ts) ==
    [t \in Tables |->
        IF t \in AppendTables
        THEN {r \in db[t] : RowKey(t, r) \notin records[t]}
        ELSE {IF RowKey(t, r) \in records[t] THEN [r EXCEPT !.synced_at = ts] ELSE r
                : r \in db[t]}]

mark_synced(db, records, ts) ==
    [t \in Tables |->
        {IF RowKey(t, r) \in records[t] THEN [r EXCEPT !.synced_at = ts] ELSE r
            : r \in db[t]}]

----------------------------------------------------------------------------
(* Central Merge Service, synology/sync_api/app.py                         *)

\* Python truth value of an optional string: None and "" are false
Truthy(v) == v # NULL /\ v # ""

\* API_KEYS of the service
ApiKeys == {"k1"}

\* an Authorization header value: its first seven characters and the rest
Header(head, rest) == [head |-> head, rest |-> rest]

\* request.headers.get("Authorization", "") of a request without the header
NoHeader == Header("", "")

\* f"Bearer {token}"
Bearer(token) == Header("Bearer ", token)

CentralTables == Tables \cup {"collectors"}
EmptyCentral == [t \in CentralTables |-> {}]

\* the statements of one request, in the order sync() issues them
WriteOrder == <<"nodes", "positions", "device_metrics", "messages", "gateways",
                "collectors">>

\* rows of a payload list in list order (rows leave the Local Store in
\* identifier order)
RECURSIVE SortById(_)
SortById(rows) ==
    IF rows = {} THEN <<>>
    ELSE LET m == CHOOSE r \in rows : \A q \in rows : r.id <= q.id
         IN <<m>> \o SortById(rows \ {m})

\* Unique constraints of the central append tables that an INSERT of the
\* service can collide with: the rows of `rows` that make ON CONFLICT DO
\* NOTHING skip `new`. The tables are keyed by their own surrogate id, which
\* the INSERT does not supply, so no row collides.
central_conflicts(t, rows, new) == {}

\* value of nodes.synced_at for a row the INSERT creates (column default)
nodes_synced_at_default(ts) == ts

\* number of target columns and of value expressions per row of each INSERT
target_columns(step) ==
    CASE step = "nodes" -> 10
      [] step = "positions" -> 8
      [] step = "device_metrics" -> 9
      [] step = "messages" -> 8
      [] step = "gateways" -> 7
      [] step = "collectors" -> 3

value_expressions(step) ==
    CASE step = "nodes" -> 10
      [] step = "positions" -> 8
      [] step = "device_metrics" -> 9
      [] step = "messages" -> 8
      [] step = "gateways" -> 6
      [] step = "collectors" -> 3

\* the store rejects an INSERT with more target columns than expressions
statement_ok(step) == target_columns(step) = value_expressions(step)

merge_node_last_writer(old, n, ts) ==
    [old EXCEPT !.long_name = COALESCE(n.long_name, old.long_name),
                !.short_name = COALESCE(n.short_name, old.short_name),
                !.last_seen = n.last_seen,
                !.synced_at = ts]

merge_node_overwrite(old, n, ts) ==
    [old EXCEPT !.long_name = n.long_name,
                !.short_name = n.short_name,
                !.last_seen = Max2(old.last_seen, n.last_seen),
                !.synced_at = ts]

\* ON CONFLICT (node_id) DO UPDATE SET ... of _upsert_nodes, for one stored row
merge_node(old, n, ts) ==
    [old EXCEPT !.long_name = COALESCE(n.long_name, old.long_name),
                !.short_name = COALESCE(n.short_name, old.short_name),
                !.last_seen = Max2(old.last_seen, n.last_seen),
                !.synced_at = ts]

\* _upsert_nodes: the payload carries at most one row per node_id
upsert_nodes(rows, nodes, collector_id, ts) ==
    LET incoming(id) == {n \in nodes : n.node_id = id}
        kept == {r \in rows : incoming(r.node_id) = {}}
        merged == {merge_node(r, CHOOSE n \in incoming(r.node_id) : TRUE, ts)
                     : r \in {q \in rows : incoming(q.node_id) # {}}}
        fresh == {[node_id |-> n.node_id, long_name |-> n.long_name,
                   short_name |-> n.short_name, first_seen |-> n.first_seen,
                   last_seen |-> n.last_seen, collector_id |-> collector_id,
                   synced_at |-> nodes_synced_at_default(ts)]
                     : n \in {m \in nodes : \A r \in rows : r.node_id # m.node_id}}
    IN kept \cup merged \cup fresh

\* the row an append INSERT writes for payload row p
central_row(t, p, id, collector_id, ts) ==
    IF t = "messages"
    THEN [id |-> id, timestamp |-> p.timestamp, from_node |-> p.from_node,
          text |-> p.text, collector_id |-> collector_id, synced_at |-> ts]
    ELSE [id |-> id, node_id |-> p.node_id, timestamp |-> p.timestamp,
          collector_id |-> collector_id, synced_at |-> ts]

\* _insert_positions / _insert_device_metrics / _insert_messages:
\* INSERT ... ON CONFLICT DO NOTHING, row by row in list order
RECURSIVE insert_rows(_, _, _, _, _)
insert_rows(t, rows, list, collector_id, ts) ==
    IF list = <<>> THEN rows
    ELSE LET new == central_row(t, Head(list), NextId(rows), collector_id, ts)
         IN insert_rows(t,
                        IF central_conflicts(t, rows, new) = {}
                        THEN rows \cup {new} ELSE rows,
                        Tail(list), collector_id, ts)

\* ON CONFLICT (host, port, collector_id) DO UPDATE SET ... of _upsert_gateways
merge_gateway(old, g, ts) ==
    [old EXCEPT !.node_id = COALESCE(g.node_id, old.node_id),
                !.last_seen = Max2(old.last_seen, g.last_seen),
                !.synced_at = ts]

\* _upsert_gateways
upsert_gateways(rows, gateways, collector_id, ts) ==
    LET same(r, g) == r.host = g.host /\ r.port = g.port
                      /\ r.collector_id = collector_id
        incoming(r) == {g \in gateways : same(r, g)}
        kept == {r \in rows : incoming(r) = {}}
        merged == {merge_gateway(r, CHOOSE g \in incoming(r) : TRUE, ts)
                     : r \in {q \in rows : incoming(q) # {}}}
        fresh == {[host |-> g.host, port |-> g.port, node_id |-> g.node_id,
                   first_seen |-> g.first_seen, last_seen |-> g.last_seen,
                   collector_id |-> collector_id, synced_at |-> ts]
                     : g \in {h \in gateways : \A r \in rows : ~same(r, h)}}
    IN kept \cup merged \cup fresh

\* an _update_collector that counts the batch for every collector
update_collector_count_all(rows, collector_id, ts) ==
    LET old == {r \in rows : r.collector_id = collector_id}
    IN {[r EXCEPT !.record_count = @ + 1] : r \in rows \ old} \cup
       {[collector_id |-> collector_id, last_seen |-> ts,
         record_count |-> IF old = {} THEN 1
                          ELSE (CHOOSE r \in old : TRUE).record_count + 1]}

\* _update_collector
update_collector(rows, collector_id, ts) ==
    LET old == {r \in rows : r.collector_id = collector_id}
    IN (rows \ old) \cup
       {[collector_id |-> collector_id, last_seen |-> ts,
         record_count |-> IF old = {} THEN 1
                          ELSE (CHOOSE r \in old : TRUE).record_count + 1]}

\* one statement of the request's transaction
write_step(step, db, payload, ts) ==
    LET cid == payload.collector_id
    IN CASE step = "nodes" ->
              [db EXCEPT !.nodes = upsert_nodes(db.nodes, payload.data.nodes, cid, ts)]
         [] step \in AppendTables ->
              [db EXCEPT ![step] = insert_rows(step, db[step],
                                               SortById(payload.data[step]), cid, ts)]
         [] step = "gateways" ->
              [db EXCEPT !.gateways = upsert_gateways(db.gateways,
                                                      payload.data.gateways, cid, ts)]
         [] step = "collectors" ->
              [db EXCEPT !.collectors = update_collector(db.collectors, cid, ts)]

\* the statements sync() executes for a payload: a table with an empty list
\* is skipped
Executed(payload) ==
    {WriteOrder[i] : i \in {j \in 1..Len(WriteOrder) :
        WriteOrder[j] = "collectors" \/ payload.data[WriteOrder[j]] # {}}}

\* sync(), lines 122-157: the statements run in order on the request's
\* connection; a table with an empty list is skipped; the first statement that
\* raises ends the block. failAt names the statement the store fails (none: no
\* failure of the store).
RECURSIVE run_writes(_, _, _, _, _)
run_writes(pending, payload, i, failAt, ts) ==
    IF i > Len(WriteOrder) THEN [db |-> pending, failed |-> FALSE]
    ELSE LET step == WriteOrder[i]
             executed == step \in Executed(payload)
         IN IF executed /\ (failAt = step \/ ~statement_ok(step))
            THEN [db |-> pending, failed |-> TRUE]
            ELSE run_writes(IF executed THEN write_step(step, pending, payload, ts)
                                        ELSE pending,
                            payload, i + 1, failAt, ts)

close_db_keeps_writes(committed, pending) == pending

\* close_db at teardown of a request that did not commit: the connection is
\* closed and the store discards its uncommitted writes
close_db(committed, pending) == committed

\* where the store can fail a request: at a statement it executes, at the
\* commit, or nowhere
FailPoints(payload) == Executed(payload) \cup {"commit", "none"}

require_api_key_token_only(auth) == auth.rest \in ApiKeys

\* require_api_key lines 55-62: the header starts with "Bearer " and the rest
\* of it is one of the API keys
require_api_key(auth) == auth.head = "Bearer " /\ auth.rest \in ApiKeys

\* request.get_json() of a JSON request: the parsed document, or BadRequest
\* raised when the body is not a JSON document
get_json(req) ==
    IF req.body = "json" THEN [raised |-> FALSE, payload |-> req.payload]
    ELSE [raised |-> TRUE, payload |-> NULL]

\* `not payload`: the document is the empty object
EmptyPayload == [collector_id |-> NULL, data |-> [t \in Tables |-> {}]]

\* require_api_key and sync(): the response status and the Central Store after
\* the request; an exception raised inside the try block, that of get_json
\* included, ends in the handler of lines 175-177
sync(db, req, failAt, ts) ==
    IF ~require_api_key(req.authorization) THEN [status |-> 401, db |-> db]
    ELSE IF get_json(req).raised THEN [status |-> 500, db |-> db]
    ELSE IF get_json(req).payload = EmptyPayload THEN [status |-> 400, db |-> db]
    ELSE IF ~Truthy(req.payload.collector_id) THEN [status |-> 400, db |-> db]
    ELSE LET tx == run_writes(db, req.payload, 1, failAt, ts)
         IN IF tx.failed \/ failAt = "commit"
            THEN [status |-> 500, db |-> close_db(db, tx.db)]
            ELSE [status |-> 200, db |-> tx.db]

----------------------------------------------------------------------------
(* Sync Client, mesh_monitor/sync.py and mesh_monitor/config.py            *)

\* configurations of the sync process: complete, with a key the service does
\* not know, without a key, without a URL
Configs ==
    {[sync_api_url |-> "https://nas/api/v1/sync", sync_api_key |-> k]
        : k \in {"k1", "bad", NULL}}
    \cup {[sync_api_url |-> NULL, sync_api_key |-> "k1"],
          [sync_api_url |-> "https://nas/api/v1/sync", sync_api_key |-> ""]}

\* CollectorConfig.sync_interval: the default of 300 seconds
DefaultInterval == 300

is_sync_configured_url_only(c) == Truthy(c.sync_api_url)

\* CollectorConfig.is_sync_configured: bool(sync_api_url and sync_api_key)
is_sync_configured(c) == Truthy(c.sync_api_url) /\ Truthy(c.sync_api_key)

\* datetime.isoformat(): the text of a timestamp
isoformat(ts) == "T" \o ToString(ts)

local_timestamps_timestamp_only(un) ==
    LET rows == UNION {un[t] : t \in Tables}
        timestamps == {r.timestamp : r \in {q \in rows : "timestamp" \in DOMAIN q}}
    IN IF timestamps = {} THEN [oldest |-> NULL, newest |-> NULL]
       ELSE [oldest |-> isoformat(CHOOSE m \in timestamps : \A x \in timestamps : m <= x),
             newest |-> isoformat(CHOOSE m \in timestamps : \A x \in timestamps : m >= x)]

\* _prepare_payload lines 116-126: the timestamp of each row, or its
\* last_seen when it has no timestamp (or an unset one); oldest and newest
\* are the text of the minimum and the maximum, None when there is none
local_timestamps(un) ==
    LET rows == UNION {un[t] : t \in Tables}
        stamp(r) == IF "timestamp" \in DOMAIN r /\ r.timestamp # NullTime
                    THEN r.timestamp
                    ELSE IF "last_seen" \in DOMAIN r /\ r.last_seen # NullTime
                    THEN r.last_seen
                    ELSE NullTime
        timestamps == {stamp(r) : r \in rows} \ {NullTime}
    IN IF timestamps = {} THEN [oldest |-> NULL, newest |-> NULL]
       ELSE [oldest |-> isoformat(CHOOSE m \in timestamps : \A x \in timestamps : m <= x),
             newest |-> isoformat(CHOOSE m \in timestamps : \A x \in timestamps : m >= x)]

\* _prepare_payload and the headers of _send_sync_request
prepare_payload(c, un) ==
    [authorization |-> Bearer(c.sync_api_key),
     body |-> "json",
     payload |-> [collector_id |-> CollectorId, data |-> un,
                  local_timestamps |-> local_timestamps(un)]]

response_ok_any(status) == status < 600

\* requests.Response.ok: no error status
response_ok(status) == status < 400

on_send_failure_marks_nodes(db, un) ==
    mark_synced(db, [t \in Tables |->
                        IF t = "nodes" THEN extract_record_ids(un)[t] ELSE {}], 1)

\* sync_once lines 69-72: a failed request raises before any row is marked
on_send_failure(db, un) == db

\* sync_once ended with an exception of the Local Store
StoreError == [status |-> "sqlite3.Error", records_synced |-> 0]

\* no sync_once has ended yet
NoResult == [status |-> "none", records_synced |-> 0]

\* sync_once raised SyncError
SyncError == [status |-> "SyncError", records_synced |-> 0]

\* a sync_once without the early return: the total is never zero
total_records_never_zero(un) ==
    Cardinality(UNION {{<<t, r>> : r \in un[t]} : t \in Tables}) + 1

\* sync_once line 58: total_records
total_records(un) ==
    Cardinality(UNION {{<<t, r>> : r \in un[t]} : t \in Tables})

\* sync_once line 62: the result when there is nothing to sync
noop_result == [status |-> "ok", records_synced |-> 0]

\* a result that counts the node rows only
sync_result_nodes_only(un) ==
    [status |-> "ok", records_synced |-> Cardinality(un.nodes)]

\* sync_once lines 89-99: the result after mark_synced
sync_result(un) == [status |-> "ok", records_synced |-> total_records(un)]

\* history: mark_synced was called with the identifiers in records
note_marked(m, records) ==
    LET ids == UNION {{<<t, k>> : k \in records[t]} : t \in Tables}
    IN [last |-> m.last \cup ids, ever |-> m.ever \cup ids]

\* index of table t in the order get_unsynced_records reads the tables
TableIndex(t) == CHOOSE i \in 1..Len(TableOrder) : TableOrder[i] = t

\* row `key` of table t has been read into the batch of the cycle in progress
InBatch(t, key) ==
    /\ \/ pc \in {"await", "mark"}
       \/ pc = "read" /\ rd > TableIndex(t)
    /\ key \in extract_record_ids(unsynced)[t]

\* the threads that call start() and stop() on one SyncService
Callers == {"c1", "c2"}

\* bound on the connect / disconnect / stop calls of a behaviour
MaxConnects == 3

\* the gateways the collector is asked to connect to; the dict key
\* f"{host}:{port}" is written as the pair it is built from
CollectorKeys == {[host |-> "gw1", port |-> 4403], [host |-> "gw2", port |-> 4403]}

\* d[k] = v
dict_set(d, k, v) == [x \in DOMAIN d \cup {k} |-> IF x = k THEN v ELSE d[x]]

\* del d[k]
dict_del(d, k) == [x \in DOMAIN d \ {k} |-> d[x]]

\* no call in progress in a thread, and what its last call was and returned
Idle(op, key, ret) ==
    [pc |-> "idle", op |-> op, key |-> key, ret |-> ret, iface |-> 0, keys |-> {}]

\* MeshCollector.__init__ lines 32-36: no interface, no gateway id. History:
\* `opened` holds the TCPInterface objects created and not closed, `made` and
\* `ops` count the interfaces and the calls.
NoCollector ==
    [interfaces |-> <<>>, gateway_ids |-> <<>>, opened |-> {}, made |-> 0,
     ops |-> 0, th |-> [c \in Callers |-> Idle("none", NULL, FALSE)]]

\* a SyncService right after __init__, nobody calling it
LifeIdle ==
    /\ stop_event = FALSE
    /\ sync_thread = 0
    /\ threads = <<>>
    /\ callers = [c \in Callers |-> "idle"]
    /\ calls = [start |-> 0, stop |-> 0]
    /\ sync_enabled = TRUE
    /\ loop = LoopStart(DefaultInterval)
    /\ run = NoRun
    /\ collector = NoCollector

----------------------------------------------------------------------------
(* Spec: actions                                                           *)

\* the Local Store when the sync process starts: as Database.__init__ creates
\* it, or with a node the collector process has stored already
InitialStores ==
    {EmptyTables} \cup {upsert_node(EmptyTables, n, NULL, "S", 1) : n \in NodeIds}

Init ==
    /\ now = 1
    /\ ldb \in InitialStores
    /\ ingested = 0
    /\ cycles = 0
    /\ config \in Configs
    /\ pc = "idle"
    /\ rd = 1
    /\ unsynced = EmptyTables
    /\ net = None
    /\ result = NoResult
    /\ cdb = EmptyCentral
    /\ acked = {}
    /\ dirtied = {}
    /\ mutated = FALSE
    /\ marked = NoMarks
    /\ call = NoCall
    /\ given = NoGiven
    /\ merge = NoMerge
    /\ LifeIdle

Tick ==
    /\ UNCHANGED <<merge, lifeVars, call, given, mutated>>
    /\ now < MaxTime
    /\ now' = now + 1
    /\ UNCHANGED <<ldb, ingested, cycles, config, pc, rd, unsynced, net, result, cdb,
                   acked, dirtied, marked>>

\* the collector process: Database.upsert_node
UpsertNode ==
    /\ UNCHANGED <<merge, lifeVars, call, given>>
    /\ mutated' = TRUE
    /\ ingested < MaxIngest
    /\ \E n \in NodeIds, a \in NodeArgs :
          /\ ldb' = upsert_node(ldb, n, a[1], a[2], now)
          /\ dirtied' = IF InBatch("nodes", n)
                        THEN dirtied \cup {<<"nodes", n>>} ELSE dirtied
          /\ marked' = [marked EXCEPT !.last = @ \ {<<"nodes", n>>}]
    /\ ingested' = ingested + 1
    /\ UNCHANGED <<now, cycles, config, pc, rd, unsynced, net, result, cdb, acked>>

\* the collector process: Database.upsert_gateway
UpsertGateway ==
    /\ UNCHANGED <<merge, lifeVars, call, given>>
    /\ mutated' = TRUE
    /\ ingested < MaxIngest
    /\ \E k \in GatewayKeys, n \in NodeIds \cup {NULL} :
          LET db == upsert_gateway(ldb, k, n, now)
              id == (CHOOSE r \in db.gateways :
                        r.host = k.host /\ r.port = k.port).id
          IN /\ ldb' = db
             /\ dirtied' = IF InBatch("gateways", id)
                           THEN dirtied \cup {<<"gateways", id>>} ELSE dirtied
             /\ marked' = [marked EXCEPT !.last = @ \ {<<"gateways", id>>}]
    /\ ingested' = ingested + 1
    /\ UNCHANGED <<now, cycles, config, pc, rd, unsynced, net, result, cdb, acked>>

\* the collector process: Database.insert_position, insert_device_metrics
InsertReading ==
    /\ UNCHANGED <<merge, lifeVars, call, given>>
    /\ mutated' = TRUE
    /\ ingested < MaxIngest
    /\ \E t \in {"positions", "device_metrics"}, n \in NodeIds :
          ldb' = insert_reading(ldb, t, n, now)
    /\ ingested' = ingested + 1
    /\ UNCHANGED <<now, cycles, config, pc, rd, unsynced, net, result, cdb, acked,
                   dirtied, marked>>

\* the collector process: _handle_position / _handle_telemetry of a packet
\* with a fromId: upsert_node(node_id=from_id), then the reading is inserted
HandleReading ==
    /\ UNCHANGED <<merge, lifeVars, call, given>>
    /\ mutated' = TRUE
    /\ ingested < MaxIngest
    /\ \E t \in {"positions", "device_metrics"}, n \in NodeIds :
          /\ ldb' = insert_reading(upsert_node(ldb, n, NULL, NULL, now), t, n, now)
          /\ dirtied' = IF InBatch("nodes", n)
                        THEN dirtied \cup {<<"nodes", n>>} ELSE dirtied
          /\ marked' = [marked EXCEPT !.last = @ \ {<<"nodes", n>>}]
    /\ ingested' = ingested + 1
    /\ UNCHANGED <<now, cycles, config, pc, rd, unsynced, net, result, cdb, acked>>

\* the collector process: Database.insert_message
InsertMessage ==
    /\ UNCHANGED <<merge, lifeVars, call, given>>
    /\ mutated' = TRUE
    /\ ingested < MaxIngest
    /\ \E n \in NodeIds : ldb' = insert_message(ldb, n, "hi", now)
    /\ ingested' = ingested + 1
    /\ UNCHANGED <<now, cycles, config, pc, rd, unsynced, net, result, cdb, acked,
                   dirtied, marked>>

\* sync_once lines 52-53: the configuration check
SyncOnceBegin ==
    /\ UNCHANGED <<merge, lifeVars, call, given>>
    /\ mutated' = FALSE
    /\ pc = "idle"
    /\ cycles < MaxCycles
    /\ IF is_sync_configured(config)
       THEN /\ pc' = "read"
            /\ rd' = 1
            /\ result' = NoResult
       ELSE /\ result' = SyncError
            /\ UNCHANGED <<pc, rd>>
    /\ dirtied' = {}
    /\ UNCHANGED <<now, ldb, ingested, config, unsynced, net, cdb, acked, marked>>
    /\ cycles' = cycles + 1

\* get_unsynced_records: one SELECT per table, each seeing the rows committed
\* when it runs; after the last one, sync_once lines 59-70: nothing to send,
\* or the request goes out
ReadTable ==
    /\ UNCHANGED <<merge, lifeVars, call, given, mutated>>
    /\ pc = "read"
    /\ \E rows \in select_unsynced(ldb[TableOrder[rd]], SyncLimit) :
          LET un == [unsynced EXCEPT ![TableOrder[rd]] = rows]
              total == total_records(un)
          IN IF rd < Len(TableOrder)
             THEN /\ unsynced' = un
                  /\ rd' = rd + 1
                  /\ UNCHANGED <<pc, net, result>>
             ELSE IF total = 0
             THEN /\ unsynced' = EmptyTables
                  /\ rd' = 1
                  /\ pc' = "idle"
                  /\ result' = noop_result
                  /\ UNCHANGED net
             ELSE /\ unsynced' = un
                  /\ rd' = 1
                  /\ pc' = "await"
                  /\ net' = [req |-> prepare_payload(config, un),
                             handled |-> FALSE, status |-> 0]
                  /\ UNCHANGED result
    /\ UNCHANGED <<now, ldb, ingested, cycles, config, cdb, acked, dirtied, marked>>

\* the service handles the request in flight
ServerSync ==
    /\ UNCHANGED <<merge, lifeVars, call, given, mutated>>
    /\ net # None
    /\ ~net.handled
    /\ \E failAt \in FailPoints(net.req.payload) :
          LET out == sync(cdb, net.req, failAt, now)
          IN /\ cdb' = out.db
             /\ net' = [net EXCEPT !.handled = TRUE, !.status = out.status]
    /\ UNCHANGED <<now, ldb, ingested, cycles, config, pc, rd, unsynced, result, acked,
                   dirtied, marked>>

\* _send_sync_request lines 152-155: the response arrives
RecvResponse ==
    /\ UNCHANGED <<merge, lifeVars, call, given, mutated>>
    /\ pc = "await"
    /\ net # None
    /\ net.handled
    /\ IF response_ok(net.status)
       THEN /\ pc' = "mark"
            /\ acked' = IF net.status \in 200..299
                        THEN acked \cup
                             UNION {{<<t, k>> : k \in extract_record_ids(unsynced)[t]}
                                       : t \in Tables}
                        ELSE acked
            /\ UNCHANGED <<ldb, unsynced, result>>
       ELSE /\ pc' = "idle"
            /\ result' = SyncError
            /\ ldb' = on_send_failure(ldb, unsynced)
            /\ unsynced' = EmptyTables
            /\ UNCHANGED acked
    /\ net' = None
    /\ UNCHANGED <<now, ingested, cycles, config, rd, cdb, dirtied, marked>>

\* requests.post raises (connection error, timeout): the request was lost
\* before the service saw it, or its response was lost
TransportError ==
    /\ UNCHANGED <<merge, lifeVars, call, given, mutated>>
    /\ pc = "await"
    /\ net # None
    /\ pc' = "idle"
    /\ result' = SyncError
    /\ ldb' = on_send_failure(ldb, unsynced)
    /\ unsynced' = EmptyTables
    /\ net' = None
    /\ UNCHANGED <<now, ingested, cycles, config, rd, cdb, acked, dirtied, marked>>

\* sync_once lines 75-76: _extract_record_ids and mark_synced
MarkSynced ==
    /\ UNCHANGED <<merge, lifeVars, call, given, mutated>>
    /\ pc = "mark"
    /\ ldb' = mark_synced(ldb, extract_record_ids(unsynced), now)
    /\ unsynced' = EmptyTables
    /\ pc' = "idle"
    /\ result' = sync_result(unsynced)
    /\ marked' = note_marked(marked, extract_record_ids(unsynced))
    /\ UNCHANGED <<now, ingested, cycles, config, rd, net, cdb, acked, dirtied>>

\* sync_once line 76: mark_synced raises sqlite3.OperationalError (the
\* database is locked by the collector process); its transaction is not
\* committed and sync_once ends with the exception
MarkSyncedFails ==
    /\ UNCHANGED <<merge, lifeVars, call, given, mutated>>
    /\ pc = "mark"
    /\ unsynced' = EmptyTables
    /\ pc' = "idle"
    /\ result' = StoreError
    /\ UNCHANGED <<now, ldb, ingested, cycles, config, rd, net, cdb, acked, dirtied,
                   marked>>

Next ==
    \/ MarkSyncedFails
    \/ Tick
    \/ UpsertNode
    \/ UpsertGateway
    \/ InsertReading
    \/ HandleReading
    \/ InsertMessage
    \/ SyncOnceBegin
    \/ ReadTable
    \/ ServerSync
    \/ RecvResponse
    \/ TransportError
    \/ MarkSynced

Spec == Init /\ [][Next]_vars

----------------------------------------------------------------------------
(* SpecMerge: the Central Merge Service under arbitrary requests           *)

\* node rows, readings, messages and gateway rows a request can carry
MergeNodeRows ==
    {[node_id |-> n, long_name |-> ln, short_name |-> NULL, first_seen |-> ls,
      last_seen |-> ls, collector_id |-> CollectorId, synced_at |-> NullTime]
        : n \in NodeIds, ln \in {NULL, "A", "B"}, ls \in {1, 2}}
    \cup
    {[node_id |-> n, long_name |-> NULL, short_name |-> "S", first_seen |-> 1,
      last_seen |-> 1, collector_id |-> CollectorId, synced_at |-> NullTime]
        : n \in NodeIds}

MergeAppendRows(t) ==
    IF t = "messages"
    THEN {[id |-> 1, timestamp |-> 1, from_node |-> n, text |-> "hi",
           collector_id |-> CollectorId, synced_at |-> NullTime] : n \in NodeIds}
    ELSE {[id |-> 1, node_id |-> n, timestamp |-> 1,
           collector_id |-> CollectorId, synced_at |-> NullTime] : n \in NodeIds}

MergeGatewayRows ==
    {[id |-> 1, host |-> k.host, port |-> k.port, node_id |-> NULL,
      first_seen |-> 1, last_seen |-> 1, collector_id |-> CollectorId,
      synced_at |-> NullTime] : k \in GatewayKeys}

\* batches: at most one row per node_id, the append tables filled or empty;
\* gateway rows alone or with everything else
MergeBatches ==
    {[t \in Tables |->
        CASE t = "nodes" -> ns
          [] t = "gateways" -> {}
          [] OTHER -> IF ap THEN MergeAppendRows(t) ELSE {}]
        : ns \in {{}} \cup {{r} : r \in MergeNodeRows}, ap \in BOOLEAN}
    \cup
    {[t \in Tables |->
        CASE t = "nodes" -> IF ap THEN {r \in MergeNodeRows :
                                         r.long_name = "A" /\ r.last_seen = 1}
                                  ELSE {}
          [] t = "gateways" -> MergeGatewayRows
          [] OTHER -> IF ap THEN MergeAppendRows(t) ELSE {}]
        : ap \in BOOLEAN}

\* a batch of positions, device metrics and messages
AppendBatch ==
    [t \in Tables |->
        IF t \in {"nodes", "gateways"} THEN {} ELSE MergeAppendRows(t)]

\* Authorization headers the service must turn away: none, a bare key,
\* another scheme, the prefix in lower case, an unknown key, no key
BadHeaders ==
    {NoHeader, Header("k1", ""), Header("Basic k", "1"), Header("bearer ", "k1"),
     Bearer("bad"), Bearer("")}

\* a batch of gateway rows alone
GatewayBatch == [t \in Tables |-> IF t = "gateways" THEN MergeGatewayRows ELSE {}]

\* requests: well-formed ones with the key of the service, from the collector
\* and, for the append batch and the gateway batch, from a second collector;
\* the append batch under each bad header, without a collector_id, and cut
\* short in transit; the empty document
MergeRequests ==
    {[authorization |-> Bearer("k1"), body |-> "json",
      payload |-> [collector_id |-> CollectorId, data |-> d]]
        : d \in MergeBatches}
    \cup {[authorization |-> Bearer("k1"), body |-> "json",
           payload |-> [collector_id |-> OtherCollectorId, data |-> d]]
             : d \in {AppendBatch, GatewayBatch}}
    \cup {[authorization |-> h, body |-> "json",
           payload |-> [collector_id |-> CollectorId, data |-> AppendBatch]]
             : h \in BadHeaders}
    \cup {[authorization |-> Bearer("k1"), body |-> "json",
           payload |-> [collector_id |-> c, data |-> AppendBatch]]
             : c \in {NULL, ""}}
    \cup {[authorization |-> Bearer("k1"), body |-> "truncated",
           payload |-> [collector_id |-> CollectorId, data |-> AppendBatch]],
          [authorization |-> Bearer("k1"), body |-> "json",
           payload |-> EmptyPayload]}

MergeInit ==
    /\ now = 1
    /\ ldb = EmptyTables
    /\ ingested = 0
    /\ cycles = 0
    /\ config \in {c \in Configs : c.sync_api_url # NULL /\ c.sync_api_key = "k1"}
    /\ pc = "idle"
    /\ rd = 1
    /\ unsynced = EmptyTables
    /\ net = None
    /\ result = NoResult
    /\ cdb = EmptyCentral
    /\ acked = {}
    /\ dirtied = {}
    /\ mutated = FALSE
    /\ marked = NoMarks
    /\ call = NoCall
    /\ given = NoGiven
    /\ merge = NoMerge
    /\ LifeIdle

\* POST /api/v1/sync
Post ==
    /\ UNCHANGED lifeVars
    /\ merge.n < MaxPosts
    /\ \E req \in MergeRequests : \E failAt \in FailPoints(req.payload) :
          LET out == sync(cdb, req, failAt, now)
          IN /\ cdb' = out.db
             /\ merge' = [n |-> merge.n + 1, prev |-> cdb, req |-> req,
                          failAt |-> failAt, ts |-> now, status |-> out.status,
                          repeat |-> /\ merge.n > 0
                                     /\ merge.status = 200
                                     /\ merge.req = req]
    /\ UNCHANGED <<now, ldb, ingested, cycles, config, pc, rd, unsynced, net,
                   result, acked, dirtied, mutated, marked, call, given>>

MergeNext == Post

SpecMerge == MergeInit /\ [][MergeNext]_vars

----------------------------------------------------------------------------
(* SpecLife: start(), stop() and the loop threads of one SyncService       *)

\* Thread.is_alive(): started and not finished
is_alive(th) == th.st \in {"top", "syncing", "waiting"}

running_any_alive == \E t \in 1..Len(threads) : is_alive(threads[t])

\* get_status line 224: the "running" entry
running == sync_thread # 0 /\ is_alive(threads[sync_thread])

LifeInit ==
    /\ now = 1
    /\ ldb = EmptyTables
    /\ ingested = 0
    /\ cycles = 0
    /\ config \in {c \in Configs : c.sync_api_url # NULL /\ c.sync_api_key = "k1"}
    /\ pc = "idle"
    /\ rd = 1
    /\ unsynced = EmptyTables
    /\ net = None
    /\ result = NoResult
    /\ cdb = EmptyCentral
    /\ acked = {}
    /\ dirtied = {}
    /\ mutated = FALSE
    /\ marked = NoMarks
    /\ call = NoCall
    /\ given = NoGiven
    /\ merge = NoMerge
    /\ stop_event = FALSE
    /\ sync_thread = 0
    /\ threads = <<>>
    /\ callers = [c \in Callers |-> "idle"]
    /\ calls = [start |-> 0, stop |-> 0]
    /\ sync_enabled \in BOOLEAN
    /\ loop = LoopStart(DefaultInterval)
    /\ run = NoRun
    /\ collector = NoCollector

\* a caller enters start()
CallStart ==
    /\ calls.start + calls.stop < MaxCalls
    /\ \E c \in Callers :
          /\ callers[c] = "idle"
          /\ callers' = [callers EXCEPT ![c] = "start_check"]
    /\ calls' = [calls EXCEPT !.start = @ + 1]
    /\ UNCHANGED <<stop_event, sync_thread, threads, sync_enabled>>
    /\ UNCHANGED <<pipeVars, collector, run, merge, loop>>

\* start() lines 169-175: return when the thread is alive or sync is disabled
StartCheck ==
    /\ \E c \in Callers :
          /\ callers[c] = "start_check"
          /\ callers' = [callers EXCEPT ![c] =
                IF sync_thread # 0 /\ is_alive(threads[sync_thread]) THEN "idle"
                ELSE IF ~sync_enabled THEN "idle"
                ELSE "start_clear"]
    /\ UNCHANGED <<stop_event, sync_thread, threads, calls, sync_enabled>>
    /\ UNCHANGED <<pipeVars, collector, run, merge, loop>>

\* start() line 177: self._stop_event.clear()
StartClear ==
    /\ \E c \in Callers :
          /\ callers[c] = "start_clear"
          /\ callers' = [callers EXCEPT ![c] = "start_create"]
    /\ stop_event' = FALSE
    /\ UNCHANGED <<sync_thread, threads, calls, sync_enabled>>
    /\ UNCHANGED <<pipeVars, collector, run, merge, loop>>

\* start() line 178: self._sync_thread = threading.Thread(...)
StartCreate ==
    /\ Len(threads) < MaxThreads
    /\ \E c \in Callers :
          /\ callers[c] = "start_create"
          /\ callers' = [callers EXCEPT ![c] = "start_run"]
    /\ threads' = Append(threads, [st |-> "created", stopped |-> FALSE,
                                   late |-> FALSE])
    /\ sync_thread' = Len(threads) + 1
    /\ UNCHANGED <<stop_event, calls, sync_enabled>>
    /\ UNCHANGED <<pipeVars, collector, run, merge, loop>>

\* start() line 179: self._sync_thread.start(), on the thread the attribute
\* holds now; raises when it holds None or a thread that was started already
StartRun ==
    /\ \E c \in Callers :
          /\ callers[c] = "start_run"
          /\ callers' = [callers EXCEPT ![c] = "idle"]
    /\ threads' = IF sync_thread # 0 /\ threads[sync_thread].st = "created"
                  THEN [threads EXCEPT ![sync_thread].st = "top"]
                  ELSE threads
    /\ UNCHANGED <<stop_event, sync_thread, calls, sync_enabled>>
    /\ UNCHANGED <<pipeVars, collector, run, merge, loop>>

\* a caller enters stop()
CallStop ==
    /\ calls.start + calls.stop < MaxCalls
    /\ \E c \in Callers :
          /\ callers[c] = "idle"
          /\ callers' = [callers EXCEPT ![c] = "stop_set"]
    /\ calls' = [calls EXCEPT !.stop = @ + 1]
    /\ UNCHANGED <<stop_event, sync_thread, threads, sync_enabled>>
    /\ UNCHANGED <<pipeVars, collector, run, merge, loop>>

\* stop() line 188: self._stop_event.set(). History: the loop threads running
\* at this moment are the ones this stop() is to end.
StopSet ==
    /\ \E c \in Callers :
          /\ callers[c] = "stop_set"
          /\ callers' = [callers EXCEPT ![c] = "stop_join"]
    /\ stop_event' = TRUE
    /\ threads' = [i \in 1..Len(threads) |->
                     IF is_alive(threads[i])
                     THEN [threads[i] EXCEPT !.stopped = TRUE] ELSE threads[i]]
    /\ UNCHANGED <<sync_thread, calls, sync_enabled>>
    /\ UNCHANGED <<pipeVars, collector, run, merge, loop>>

\* stop() lines 189-191: join(timeout=5) returns when the thread has ended, or
\* after 5 seconds while a sync_once (a request of up to 30 seconds) is in
\* flight or while the thread waits on an event that a start() has cleared;
\* then self._sync_thread = None. join raises on a thread that was never
\* started, and the attribute keeps it.
StopJoin ==
    /\ \E c \in Callers :
          /\ callers[c] = "stop_join"
          /\ callers' = [callers EXCEPT ![c] = "idle"]
    /\ \/ /\ sync_thread = 0
          /\ UNCHANGED sync_thread
       \/ /\ sync_thread # 0
          /\ threads[sync_thread].st = "created"
          /\ UNCHANGED sync_thread
       \/ /\ sync_thread # 0
          /\ \/ threads[sync_thread].st \in {"dead", "syncing"}
             \/ threads[sync_thread].st = "waiting" /\ ~stop_event
          /\ sync_thread' = 0
    /\ UNCHANGED <<stop_event, threads, calls, sync_enabled>>
    /\ UNCHANGED <<pipeVars, collector, run, merge, loop>>

\* _sync_loop line 199: while not self._stop_event.is_set(), then line 201:
\* sync_once begins. History: late records a sync_once begun by a thread
\* that a stop() was to end.
LoopCheck ==
    /\ \E t \in 1..Len(threads) :
          /\ threads[t].st = "top"
          /\ threads' = IF stop_event
                        THEN [threads EXCEPT ![t].st = "dead"]
                        ELSE [threads EXCEPT ![t].st = "syncing",
                                             ![t].late = threads[t].stopped]
    /\ UNCHANGED <<stop_event, sync_thread, callers, calls, sync_enabled>>
    /\ UNCHANGED <<pipeVars, collector, run, merge, loop>>

\* _sync_loop lines 201-208: sync_once returns or raises, the loop goes on to
\* wait
SyncOnceEnd ==
    /\ \E t \in 1..Len(threads) :
          /\ threads[t].st = "syncing"
          /\ threads' = [threads EXCEPT ![t].st = "waiting"]
    /\ UNCHANGED <<stop_event, sync_thread, callers, calls, sync_enabled>>
    /\ UNCHANGED <<pipeVars, collector, run, merge, loop>>

\* _sync_loop line 211: _stop_event.wait(timeout=...) returns, the event set
\* or the timeout over
LoopWait ==
    /\ \E t \in 1..Len(threads) :
          /\ threads[t].st = "waiting"
          /\ threads' = [threads EXCEPT ![t].st = "top"]
    /\ UNCHANGED <<stop_event, sync_thread, callers, calls, sync_enabled>>
    /\ UNCHANGED <<pipeVars, collector, run, merge, loop>>

LifeNext ==
    \/ CallStart
    \/ StartCheck
    \/ StartClear
    \/ StartCreate
    \/ StartRun
    \/ CallStop
    \/ StopSet
    \/ StopJoin
    \/ LoopCheck
    \/ SyncOnceEnd
    \/ LoopWait

SpecLife == LifeInit /\ [][LifeNext]_vars

----------------------------------------------------------------------------
(* SpecLoop: one _sync_loop thread, its backoff and its waits               *)

\* _sync_loop line 197
MaxBackoff == 300

\* values of config.sync_interval: below the minimum validate() asks for (a
\* SyncService built without run_sync_service), the minimum, the default
Intervals == {1, 10, DefaultInterval}

\* how one sync_once call ends: with a result (ok, noop), or raising at the
\* configuration check, at the request (transport), at the response
\* (rejected), or in the Local Store (store)
Outcomes(c) ==
    IF is_sync_configured(c)
    THEN {"ok", "noop", "transport", "rejected", "store"}
    ELSE {"configuration"}

raised_noop_fails(outcome) ==
    CASE outcome = "ok" -> "none"
      [] outcome \in {"noop", "configuration", "transport", "rejected"} -> "SyncError"
      [] outcome = "store" -> "sqlite3.Error"

\* the exception an outcome raises: sync_once raises SyncError itself and
\* wraps requests.RequestException in it; sqlite3.Error comes as it is
raised(outcome) ==
    CASE outcome \in {"ok", "noop"} -> "none"
      [] outcome \in {"configuration", "transport", "rejected"} -> "SyncError"
      [] outcome = "store" -> "sqlite3.Error"

handles_sync_error_only(exc) == exc = "SyncError"

\* _sync_loop lines 203-208: except SyncError, except Exception
handles(exc) == exc = "SyncError" \/ exc = "sqlite3.Error"

Min2(a, b) == IF a <= b THEN a ELSE b

next_backoff_uncapped(backoff) == backoff * 2

\* _sync_loop lines 205 and 208
next_backoff(backoff) == Min2(backoff * 2, MaxBackoff)

wait_timeout_backoff_only(interval, backoff) == backoff

wait_timeout_smaller(interval, backoff) == Min2(interval, backoff)

\* _sync_loop line 211: the timeout of the wait
wait_timeout(interval, backoff) == Max2(interval, backoff)

LoopInit ==
    /\ now = 1
    /\ ldb = EmptyTables
    /\ ingested = 0
    /\ cycles = 0
    /\ config \in Configs
    /\ pc = "idle"
    /\ rd = 1
    /\ unsynced = EmptyTables
    /\ net = None
    /\ result = NoResult
    /\ cdb = EmptyCentral
    /\ acked = {}
    /\ dirtied = {}
    /\ mutated = FALSE
    /\ marked = NoMarks
    /\ call = NoCall
    /\ given = NoGiven
    /\ merge = NoMerge
    /\ stop_event = FALSE
    /\ sync_thread = 0
    /\ threads = <<>>
    /\ callers = [c \in Callers |-> "idle"]
    /\ calls = [start |-> 0, stop |-> 0]
    /\ sync_enabled = TRUE
    /\ \E i \in Intervals : loop = LoopStart(i)
    /\ run = NoRun
    /\ collector = NoCollector

\* _sync_loop line 199: while not self._stop_event.is_set()
LoopTop ==
    /\ loop.pc = "top"
    /\ loop' = [loop EXCEPT !.pc = IF stop_event THEN "exited" ELSE "syncing"]
    /\ UNCHANGED <<stop_event, sync_thread, threads, callers, calls, sync_enabled>>
    /\ UNCHANGED <<pipeVars, collector, run, merge>>

\* _sync_loop lines 200-211: sync_once returns or raises, the backoff is set,
\* and the wait begins with its timeout. An exception no handler takes ends
\* the thread.
LoopCycle ==
    /\ loop.pc = "syncing"
    /\ \E outcome \in Outcomes(config) :
          LET exc == raised(outcome)
              backoff == IF exc = "none" THEN 1 ELSE next_backoff(loop.backoff)
          IN /\ exc # "none" => loop.fails < MaxFails
             /\ loop' = IF exc = "none" \/ handles(exc)
                        THEN [loop EXCEPT
                                !.pc = "waiting",
                                !.backoff = backoff,
                                !.wait = wait_timeout(loop.interval, backoff),
                                !.fails = IF exc = "none" THEN 0 ELSE @ + 1,
                                !.last = outcome,
                                !.ended = "none",
                                !.before = loop.backoff]
                        ELSE [loop EXCEPT !.pc = "crashed", !.last = outcome]
    /\ UNCHANGED <<stop_event, sync_thread, threads, callers, calls, sync_enabled>>
    /\ UNCHANGED <<pipeVars, collector, run, merge>>

\* _sync_loop line 211: Event.wait returns at once when the event is set,
\* after the timeout otherwise
LoopWaitEnd ==
    /\ loop.pc = "waiting"
    /\ loop' = [loop EXCEPT !.pc = "top",
                            !.ended = IF stop_event THEN "stop" ELSE "timeout"]
    /\ UNCHANGED <<stop_event, sync_thread, threads, callers, calls, sync_enabled>>
    /\ UNCHANGED <<pipeVars, collector, run, merge>>

\* stop() line 188: self._stop_event.set()
LoopStop ==
    /\ ~stop_event
    /\ stop_event' = TRUE
    /\ UNCHANGED <<sync_thread, threads, callers, calls, sync_enabled, loop>>
    /\ UNCHANGED <<pipeVars, collector, run, merge>>

LoopNext ==
    \/ LoopTop
    \/ LoopCycle
    \/ LoopWaitEnd
    \/ LoopStop

SpecLoop == LoopInit /\ [][LoopNext]_vars

-----------------------------------------------------------------------------
(* SpecStore: the operations of the Local Store called in any order         *)

\* the identifiers of the rows of table t
Keys(t) == {RowKey(t, r) : r \in ldb[t]}

\* identifier lists mark_synced can be called with: any rows of one table, or
\* every unsynced row of every table as sync_once passes them
RecordLists ==
    UNION {{[u \in Tables |-> IF u = t THEN ids ELSE {}] : ids \in SUBSET Keys(t)}
              : t \in Tables}
    \cup {extract_record_ids(
             [t \in Tables |-> {r \in ldb[t] : r.synced_at = NullTime}])}

\* history: upsert_node was called with these names for node n
note_node(g, n, long_name, short_name) ==
    [g EXCEPT !.nodes[n].long_name = IF long_name # NULL THEN long_name ELSE @,
              !.nodes[n].short_name = IF short_name # NULL THEN short_name ELSE @]

\* history: upsert_gateway was called with node_id for key k and returned id
note_gateway(g, k, node_id, id) ==
    [g EXCEPT !.gateways[k].node_id = IF node_id # NULL THEN node_id ELSE @,
              !.gateways[k].ids = @ \cup {id}]

\* the Local Store when SpecStore starts, with the history of the calls that
\* made it: empty, or after upsert_node, upsert_gateway or both
StoreStarts ==
    LET n == CHOOSE x \in NodeIds : TRUE
        k == CHOOSE x \in GatewayKeys : TRUE
        node(st) == [ldb |-> upsert_node(st.ldb, n, NULL, "S", 1),
                     given |-> note_node(st.given, n, NULL, "S")]
        gateway(st) == [ldb |-> upsert_gateway(st.ldb, k, n, 1),
                        given |-> note_gateway(st.given, k, n, 1)]
        empty == [ldb |-> EmptyTables, given |-> NoGiven]
    IN {empty, node(empty), gateway(empty), gateway(node(empty))}

StoreInit ==
    /\ now = 1
    /\ \E st \in StoreStarts : ldb = st.ldb /\ given = st.given
    /\ ingested = 0
    /\ cycles = 0
    /\ config \in {c \in Configs : c.sync_api_url # NULL /\ c.sync_api_key = "k1"}
    /\ pc = "idle"
    /\ rd = 1
    /\ unsynced = EmptyTables
    /\ net = None
    /\ result = NoResult
    /\ cdb = EmptyCentral
    /\ acked = {}
    /\ dirtied = {}
    /\ mutated = FALSE
    /\ marked = NoMarks
    /\ call = NoCall
    /\ merge = NoMerge
    /\ LifeIdle

\* the logical clock of SpecStore
StoreTick ==
    /\ now < MaxTime
    /\ now' = now + 1
    /\ UNCHANGED <<ldb, ingested, cycles, config, pc, rd, unsynced, net, result, cdb,
                   acked, dirtied, marked, call, given, merge, lifeVars,
                   mutated>>

\* Database.upsert_node
StoreUpsertNode ==
    /\ ingested < MaxOps
    /\ \E n \in NodeIds, a \in NodeArgs :
          /\ ldb' = upsert_node(ldb, n, a[1], a[2], now)
          /\ marked' = [marked EXCEPT !.last = @ \ {<<"nodes", n>>}]
          /\ call' = [op |-> "upsert_node", node_id |-> n, long_name |-> a[1],
                      short_name |-> a[2]]
          /\ given' = note_node(given, n, a[1], a[2])
    /\ ingested' = ingested + 1
    /\ UNCHANGED <<now, cycles, config, pc, rd, unsynced, net, result, cdb, acked,
                   dirtied, merge, lifeVars,
                   mutated>>

\* Database.upsert_gateway: RETURNING id
StoreUpsertGateway ==
    /\ ingested < MaxOps
    /\ \E k \in StoreGatewayKeys, n \in NodeIds \cup {NULL} :
          LET db == upsert_gateway(ldb, k, n, now)
              id == (CHOOSE r \in db.gateways :
                        r.host = k.host /\ r.port = k.port).id
          IN /\ ldb' = db
             /\ marked' = [marked EXCEPT !.last = @ \ {<<"gateways", id>>}]
             /\ call' = [op |-> "upsert_gateway", key |-> k, node_id |-> n,
                         ret |-> id]
             /\ given' = note_gateway(given, k, n, id)
    /\ ingested' = ingested + 1
    /\ UNCHANGED <<now, cycles, config, pc, rd, unsynced, net, result, cdb, acked,
                   dirtied, merge, lifeVars,
                   mutated>>

\* Database.insert_position, insert_device_metrics
StoreInsertReading ==
    /\ ingested < MaxOps
    /\ \E t \in {"positions", "device_metrics"}, n \in NodeIds :
          /\ ldb' = insert_reading(ldb, t, n, now)
          /\ call' = [op |-> "insert", table |-> t, ret |-> NextId(ldb[t])]
    /\ ingested' = ingested + 1
    /\ UNCHANGED <<now, cycles, config, pc, rd, unsynced, net, result, cdb, acked,
                   dirtied, marked, given, merge, lifeVars,
                   mutated>>

\* Database.insert_message
StoreInsertMessage ==
    /\ ingested < MaxOps
    /\ \E n \in NodeIds :
          /\ ldb' = insert_message(ldb, n, "hi", now)
          /\ call' = [op |-> "insert", table |-> "messages",
                      ret |-> NextId(ldb.messages)]
    /\ ingested' = ingested + 1
    /\ UNCHANGED <<now, cycles, config, pc, rd, unsynced, net, result, cdb, acked,
                   dirtied, marked, given, merge, lifeVars,
                   mutated>>

\* Database.mark_synced
StoreMarkSynced ==
    /\ ingested < MaxOps
    /\ \E records \in RecordLists :
          /\ ldb' = mark_synced(ldb, records, now)
          /\ marked' = note_marked(marked, records)
          /\ call' = [op |-> "mark_synced", records |-> records]
    /\ ingested' = ingested + 1
    /\ UNCHANGED <<now, cycles, config, pc, rd, unsynced, net, result, cdb,
                   acked, dirtied, given, merge, lifeVars,
                   mutated>>

StoreNext ==
    \/ StoreTick
    \/ StoreUpsertNode
    \/ StoreUpsertGateway
    \/ StoreInsertReading
    \/ StoreInsertMessage
    \/ StoreMarkSynced

SpecStore == StoreInit /\ [][StoreNext]_vars

-----------------------------------------------------------------------------
(* SpecRun: the standalone sync process, run_sync_service                    *)

\* smallest sync_interval validate accepts
MinInterval == 10

\* the CollectorConfig of the process
RunConfig ==
    [sync_api_url |-> config.sync_api_url, sync_api_key |-> config.sync_api_key,
     sync_interval |-> loop.interval, sync_enabled |-> sync_enabled]

validate_first_only(c) ==
    IF c.sync_enabled /\ ~Truthy(c.sync_api_url)
    THEN <<"SYNC_API_URL is required when sync is enabled">>
    ELSE IF c.sync_enabled /\ ~Truthy(c.sync_api_key)
    THEN <<"SYNC_API_KEY is required when sync is enabled">>
    ELSE IF c.sync_interval < MinInterval
    THEN <<"SYNC_INTERVAL must be at least 10 seconds">>
    ELSE <<>>

\* CollectorConfig.validate: the list of errors
validate(c) ==
    (IF c.sync_enabled /\ ~Truthy(c.sync_api_url)
     THEN <<"SYNC_API_URL is required when sync is enabled">> ELSE <<>>)
    \o (IF c.sync_enabled /\ ~Truthy(c.sync_api_key)
        THEN <<"SYNC_API_KEY is required when sync is enabled">> ELSE <<>>)
    \o (IF c.sync_interval < MinInterval
        THEN <<"SYNC_INTERVAL must be at least 10 seconds">> ELSE <<>>)

\* CollectorConfig._get_or_create_collector_id: the identifier and the
\* identifier file afterwards (NULL: no file)
get_or_create_collector_id(id_file, uuid, persist) ==
    IF id_file # NULL
    THEN [collector_id |-> id_file, id_file |-> id_file]
    ELSE [collector_id |-> uuid,
          id_file |-> CASE persist = "written" -> uuid
                        [] persist = "failed" -> NULL
                        [] persist = "empty" -> ""]

\* load_config with no COLLECTOR_ID in the config file: from_file asks
\* _get_or_create_collector_id, MESHTASTIC_COLLECTOR_ID overrides the result
load_config(env_id, id_file, uuid, persist) ==
    LET made == get_or_create_collector_id(id_file, uuid, persist)
    IN [collector_id |-> IF Truthy(env_id) THEN env_id ELSE made.collector_id,
        id_file |-> made.id_file]

invalid_never(errors) == FALSE

\* run_sync_service line 241: `if errors`
invalid(errors) == errors # <<>>

RunInit ==
    /\ now = 1
    /\ ldb = EmptyTables
    /\ ingested = 0
    /\ cycles = 0
    /\ config \in Configs \cup {[sync_api_url |-> NULL, sync_api_key |-> NULL]}
    /\ pc = "idle"
    /\ rd = 1
    /\ unsynced = EmptyTables
    /\ net = None
    /\ result = NoResult
    /\ cdb = EmptyCentral
    /\ acked = {}
    /\ dirtied = {}
    /\ mutated = FALSE
    /\ marked = NoMarks
    /\ call = NoCall
    /\ given = NoGiven
    /\ merge = NoMerge
    /\ stop_event = FALSE
    /\ sync_thread = 0
    /\ threads = <<>>
    /\ callers = [c \in Callers |-> "idle"]
    /\ calls = [start |-> 0, stop |-> 0]
    /\ sync_enabled \in BOOLEAN
    /\ \E i \in Intervals \cup {MinInterval - 1} : loop = LoopStart(i)
    /\ \E id \in {NULL, CollectorId} : run = [NoRun EXCEPT !.env_id = id]
    /\ collector = NoCollector

\* run_sync_service lines 237-244: load_config, validate, and raise SyncError
\* on errors. uuid4 draws any identifier; writing the identifier file
\* succeeds, fails before the file exists, or fails after it was created.
\* History: first_id is the collector_id of the first run.
RunValidate ==
    /\ run.pc = "load"
    /\ \E uuid \in {"collector-u1", "collector-u2"},
          persist \in {"written", "failed", "empty"} :
          LET errors == validate(RunConfig)
              loaded == load_config(run.env_id, run.id_file, uuid, persist)
          IN run' = [run EXCEPT
                       !.errors = errors,
                       !.pc = IF invalid(errors) THEN "raised" ELSE "valid",
                       !.id_file = loaded.id_file,
                       !.collector_id = loaded.collector_id,
                       !.first_id = IF run.runs = 1 THEN loaded.collector_id ELSE @]
    /\ UNCHANGED <<pipeVars, merge, collector, stop_event, sync_thread, threads, callers, calls,
                   sync_enabled, loop>>

\* run_sync_service lines 246-247: Database(...) and SyncService(...)
RunOpen ==
    /\ run.pc = "valid"
    /\ run' = [run EXCEPT !.pc = "open", !.db_open = TRUE]
    /\ UNCHANGED <<pipeVars, merge, collector, stop_event, sync_thread, threads, callers, calls,
                   sync_enabled, loop>>

\* run_sync_service line 253: service.start() starts the loop thread when
\* sync is enabled
RunStart ==
    /\ run.pc = "open"
    /\ run' = [run EXCEPT !.pc = "serving", !.looping = sync_enabled]
    /\ UNCHANGED <<pipeVars, merge, collector, stop_event, sync_thread, threads, callers, calls,
                   sync_enabled, loop>>

\* the loop thread calls sync_once
RunSyncOnce ==
    /\ run.pc = "serving"
    /\ run.looping
    /\ run.cycles < MaxCycles
    /\ run' = [run EXCEPT !.cycles = @ + 1]
    /\ UNCHANGED <<pipeVars, merge, collector, stop_event, sync_thread, threads, callers, calls,
                   sync_enabled, loop>>

\* run_sync_service lines 258-260: KeyboardInterrupt, service.stop()
RunInterrupt ==
    /\ run.pc = "serving"
    /\ run' = [run EXCEPT !.pc = "stopped", !.looping = FALSE]
    /\ UNCHANGED <<pipeVars, merge, collector, stop_event, sync_thread, threads, callers, calls,
                   sync_enabled, loop>>

\* the process is run again after it ended; the identifier file stays
RunRestart ==
    /\ run.pc \in {"raised", "stopped"}
    /\ run.runs < MaxRuns
    /\ run' = [NoRun EXCEPT !.env_id = run.env_id, !.id_file = run.id_file,
                            !.first_id = run.first_id, !.runs = run.runs + 1]
    /\ UNCHANGED <<pipeVars, merge, collector, stop_event, sync_thread, threads, callers, calls,
                   sync_enabled, loop>>

RunNext ==
    \/ RunRestart
    \/ RunValidate
    \/ RunOpen
    \/ RunStart
    \/ RunSyncOnce
    \/ RunInterrupt

SpecRun == RunInit /\ [][RunNext]_vars

-----------------------------------------------------------------------------
(* SpecDrain: sync_once called again and again on a store with a backlog,    *)
(* nothing else writing to the store                                        *)

\* a store with a node row (or none) and `p` positions and `m` messages that
\* were never synced
RECURSIVE DrainStore(_, _, _)
DrainStore(n, p, m) ==
    IF m > 0 THEN insert_message(DrainStore(n, p, m - 1), n, "hi", 1)
    ELSE IF p > 0 THEN insert_reading(DrainStore(n, p - 1, 0), "positions", n, 1)
    ELSE upsert_node(EmptyTables, n, NULL, "S", 1)

DrainInit ==
    /\ now = MaxTime
    /\ \E n \in NodeIds, p \in 0..MaxRows, m \in 0..MaxRows : ldb = DrainStore(n, p, m)
    /\ ingested = 0
    /\ cycles = 0
    /\ config \in {c \in Configs : c.sync_api_url # NULL /\ c.sync_api_key = "k1"}
    /\ pc = "idle"
    /\ rd = 1
    /\ unsynced = EmptyTables
    /\ net = None
    /\ result = NoResult
    /\ cdb = EmptyCentral
    /\ acked = {}
    /\ dirtied = {}
    /\ mutated = FALSE
    /\ marked = NoMarks
    /\ call = NoCall
    /\ given = NoGiven
    /\ merge = NoMerge
    /\ LifeIdle

\* sync_once lines 52-99 as one step, with get_unsynced_records(limit): the
\* rows are read, and when there are any the batch is sent; requests.post
\* raises (status 0) or the service answers with a status, and only after
\* an answer that is ok the rows of the batch are marked. The Central Store
\* is left out: what the service does with a batch is in Spec and SpecMerge.
DrainSyncOnce ==
    /\ is_sync_configured(config)
    /\ \E limit \in 1..MaxLimit :
       \E nodes \in select_unsynced(ldb.nodes, limit),
          positions \in select_unsynced(ldb.positions, limit),
          device_metrics \in select_unsynced(ldb.device_metrics, limit),
          messages \in select_unsynced(ldb.messages, limit),
          gateways \in select_unsynced(ldb.gateways, limit) :
          LET un == [nodes |-> nodes, positions |-> positions,
                     device_metrics |-> device_metrics, messages |-> messages,
                     gateways |-> gateways]
          IN /\ call' = [op |-> "sync_once", limit |-> limit]
             /\ IF total_records(un) = 0
                THEN /\ result' = noop_result
                     /\ unsynced' = EmptyTables
                     /\ UNCHANGED ldb
                ELSE /\ unsynced' = un
                     /\ \E status \in {0, 200, 401, 500} :
                          LET ok == status # 0 /\ response_ok(status)
                          IN /\ ldb' = IF ok
                                       THEN mark_synced(ldb, extract_record_ids(un), now)
                                       ELSE on_send_failure(ldb, un)
                             /\ result' = IF ok THEN sync_result(un) ELSE SyncError
    /\ UNCHANGED <<now, ingested, cycles, config, pc, rd, net, cdb, acked, dirtied,
                   mutated, marked, given, merge, lifeVars>>

\* the calls go on, and go on succeeding
SpecDrain ==
    /\ DrainInit
    /\ [][DrainSyncOnce]_vars
    /\ WF_vars(DrainSyncOnce /\ result'.status = "ok")

-----------------------------------------------------------------------------
(* SpecAuth: the API key check in front of the three protected endpoints    *)

\* create_app lines 34-36: set(os.environ.get("API_KEYS", "").split(",")).
\* The setting is a string, written as the sequence of its keys and commas;
\* str.split(",") gives the fields between the commas.
api_keys(setting) ==
    LET RECURSIVE split(_)
        split(s) ==
            IF s = <<>> THEN <<"">>
            ELSE IF Head(s) = "," THEN <<"">> \o split(Tail(s))
            ELSE LET rest == split(Tail(s))
                 IN <<Head(s) \o Head(rest)>> \o Tail(rest)
        fields == split(setting)
    IN {fields[i] : i \in 1..Len(fields)}

\* require_api_key lines 55-64 of an app with the given keys: 401, or the
\* decorated function is called
decorated(keys, auth) ==
    IF ~(auth.head = "Bearer ") THEN 401
    ELSE IF auth.rest \notin keys THEN 401
    ELSE 200

\* the service is created with API_KEYS unset (the empty string), empty, or
\* holding keys
AuthInit ==
    /\ now = 1
    /\ ldb = EmptyTables
    /\ ingested = 0
    /\ cycles = 0
    /\ config \in {c \in Configs : c.sync_api_url # NULL /\ c.sync_api_key = "k1"}
    /\ pc = "idle"
    /\ rd = 1
    /\ unsynced = EmptyTables
    /\ net = None
    /\ result = NoResult
    /\ cdb = EmptyCentral
    /\ acked = {}
    /\ dirtied = {}
    /\ mutated = FALSE
    /\ marked = NoMarks
    /\ call = NoCall
    /\ given = NoGiven
    /\ \E setting \in {<<>>, <<",">>, <<"k1">>, <<"k1", ",", "k2">>, <<"k1", ",">>} :
          merge = [n |-> 0, setting |-> setting, keys |-> api_keys(setting)]
    /\ LifeIdle

\* a request to POST /api/v1/sync, GET /api/v1/collectors or GET /api/v1/stats
\* (lines 78-79, 179-180, 203-204) passes through require_api_key
AuthRequest ==
    /\ merge.n < MaxPosts
    /\ \E endpoint \in {"sync", "collectors", "stats"},
          auth \in BadHeaders \cup {Bearer("k1"), Bearer("k2")} :
          merge' = [n |-> merge.n + 1, setting |-> merge.setting, keys |-> merge.keys,
                    endpoint |-> endpoint, authorization |-> auth,
                    status |-> decorated(merge.keys, auth)]
    /\ UNCHANGED <<pipeVars, lifeVars>>

SpecAuth == AuthInit /\ [][AuthRequest]_vars

-----------------------------------------------------------------------------
(* SpecCollector: MeshCollector's bookkeeping of its gateway connections    *)

\* everything but the collector and the Local Store
collectorFrame ==
    <<now, ingested, cycles, config, pc, rd, unsynced, net, result, cdb, acked,
      dirtied, mutated, marked, call, given, merge, stop_event, sync_thread,
      threads, callers, calls, sync_enabled, run, loop>>

CollectorInit ==
    /\ now = 1
    /\ ldb = EmptyTables
    /\ ingested = 0
    /\ cycles = 0
    /\ config \in {c \in Configs : c.sync_api_url # NULL /\ c.sync_api_key = "k1"}
    /\ pc = "idle"
    /\ rd = 1
    /\ unsynced = EmptyTables
    /\ net = None
    /\ result = NoResult
    /\ cdb = EmptyCentral
    /\ acked = {}
    /\ dirtied = {}
    /\ mutated = FALSE
    /\ marked = NoMarks
    /\ call = NoCall
    /\ given = NoGiven
    /\ merge = NoMerge
    /\ LifeIdle

\* connect lines 67-71: the key is looked up, outside the lock
ConnectCheck ==
    /\ collector.ops < MaxConnects
    /\ \E c \in Callers, key \in CollectorKeys :
          /\ collector.th[c].pc = "idle"
          /\ collector' =
                [collector EXCEPT
                    !.ops = @ + 1,
                    !.th[c] = IF key \in DOMAIN collector.interfaces
                              THEN Idle("connect", key, FALSE)
                              ELSE [pc |-> "connect_open", op |-> "connect",
                                    key |-> key, ret |-> FALSE, iface |-> 0,
                                    keys |-> {}]]
    /\ UNCHANGED <<ldb, collectorFrame>>

\* connect lines 73-77 and 87-89: TCPInterface(hostname, portNumber) opens
\* the connection, or raises and connect returns False
ConnectOpen ==
    /\ \E c \in Callers, opens \in BOOLEAN :
          LET th == collector.th[c]
              id == collector.made + 1
          IN /\ th.pc = "connect_open"
             /\ collector' =
                   IF opens
                   THEN [collector EXCEPT
                            !.made = id,
                            !.opened = @ \cup {[id |-> id, key |-> th.key]},
                            !.th[c] = [th EXCEPT !.pc = "connect_store",
                                                 !.iface = id]]
                   ELSE [collector EXCEPT
                            !.th[c] = Idle("connect", th.key, FALSE)]
    /\ UNCHANGED <<ldb, collectorFrame>>

\* connect lines 79-85 and 87-89, under the lock: the interface is stored,
\* then upsert_gateway returns the gateway id, which is stored and connect
\* returns True, or it raises (sqlite3.Error) and connect returns False
ConnectStore ==
    /\ \E c \in Callers, stored \in BOOLEAN :
          LET th == collector.th[c]
              db == upsert_gateway(ldb, th.key, NULL, now)
              gateway_id == (CHOOSE r \in db.gateways :
                                r.host = th.key.host /\ r.port = th.key.port).id
              with_interface ==
                 [collector EXCEPT !.interfaces = dict_set(@, th.key, th.iface)]
          IN /\ th.pc = "connect_store"
             /\ IF stored
                THEN /\ ldb' = db
                     /\ collector' =
                           [with_interface EXCEPT
                               !.gateway_ids = dict_set(@, th.key, gateway_id),
                               !.th[c] = Idle("connect", th.key, TRUE)]
                ELSE /\ UNCHANGED ldb
                     /\ collector' =
                           [with_interface EXCEPT
                               !.th[c] = Idle("connect", th.key, FALSE)]
    /\ UNCHANGED collectorFrame

\* disconnect lines 101-117, under the lock: False for a key that is not in
\* interfaces; else the interface is closed (close() ends the connection also
\* when it raises) and the key is deleted from both dicts
disconnect(col, key) ==
    IF key \notin DOMAIN col.interfaces
    THEN [collector |-> col, ret |-> FALSE]
    ELSE [collector |->
            [col EXCEPT
                !.opened = {i \in @ : i.id # col.interfaces[key]},
                !.interfaces = dict_del(@, key),
                !.gateway_ids = IF key \in DOMAIN @ THEN dict_del(@, key) ELSE @],
          ret |-> TRUE]

\* a call of disconnect(host, port)
Disconnect ==
    /\ collector.ops < MaxConnects
    /\ \E c \in Callers, key \in CollectorKeys :
          LET out == disconnect(collector, key)
          IN /\ collector.th[c].pc = "idle"
             /\ collector' =
                   [out.collector EXCEPT
                       !.ops = @ + 1,
                       !.th[c] = Idle("disconnect", key, out.ret)]
    /\ UNCHANGED <<ldb, collectorFrame>>

\* stop lines 147-148 and disconnect_all lines 121-122: the keys of
\* interfaces are copied under the lock
StopBegin ==
    /\ collector.ops < MaxConnects
    /\ \E c \in Callers :
          /\ collector.th[c].pc = "idle"
          /\ collector' =
                [collector EXCEPT
                    !.ops = @ + 1,
                    !.th[c] = [pc |-> "stop", op |-> "stop", key |-> NULL,
                               ret |-> FALSE, iface |-> 0,
                               keys |-> DOMAIN collector.interfaces]]
    /\ UNCHANGED <<ldb, collectorFrame>>

\* disconnect_all lines 124-126: disconnect for the next of the copied keys
StopDisconnect ==
    /\ \E c \in Callers :
          LET th == collector.th[c]
          IN /\ th.pc = "stop"
             /\ \E key \in th.keys :
                   collector' =
                      [disconnect(collector, key).collector EXCEPT
                          !.th[c] = [th EXCEPT !.keys = @ \ {key}]]
    /\ UNCHANGED <<ldb, collectorFrame>>

\* stop lines 149-150: every copied key was handled, stop returns
StopEnd ==
    /\ \E c \in Callers :
          /\ collector.th[c].pc = "stop"
          /\ collector.th[c].keys = {}
          /\ collector' = [collector EXCEPT !.th[c] = Idle("stop", NULL, FALSE)]
    /\ UNCHANGED <<ldb, collectorFrame>>

CollectorNext ==
    \/ ConnectCheck
    \/ ConnectOpen
    \/ ConnectStore
    \/ Disconnect
    \/ StopBegin
    \/ StopDisconnect
    \/ StopEnd

SpecCollector == CollectorInit /\ [][CollectorNext]_vars

----------------------------------------------------------------------------
(* Claims checked under Spec                                               *)

AllRows == UNION {{<<t, r>> : r \in ldb[t]} : t \in Tables}

\* C1: every local row whose synced_at is set was part of a batch whose 2xx
\* response sync_once received: mark_synced never runs for a row before the
\* batch containing it has been acknowledged.
C1_MarkedOnlyAfterAck ==
    \A x \in AllRows :
        x[2].synced_at # NullTime => <<x[1], RowKey(x[1], x[2])>> \in acked

C1_Witness ==
    /\ result.status = "ok"
    /\ result.records_synced > 0
    /\ \E x \in AllRows : x[2].synced_at # NullTime

\* C2 (as claimed): a row upserted after sync_once read it into its batch and
\* before mark_synced is still unsynced when that sync_once has completed.
C2_DirtiedStaysUnsynced ==
    pc = "idle" =>
        \A d \in dirtied : \A r \in ldb[d[1]] :
            RowKey(d[1], r) = d[2] => r.synced_at = NullTime

\* the Central Store holds the values of local row r of table t
Delivered(t, r) ==
    CASE t = "nodes" ->
           \E c \in cdb.nodes :
              /\ c.node_id = r.node_id
              /\ c.long_name = r.long_name
              /\ c.short_name = r.short_name
              /\ c.last_seen = r.last_seen
      [] t = "gateways" ->
           \E c \in cdb.gateways :
              /\ c.host = r.host /\ c.port = r.port
              /\ c.collector_id = r.collector_id
              /\ c.node_id = r.node_id
              /\ c.last_seen = r.last_seen
      [] t = "messages" ->
           \E c \in cdb.messages :
              /\ c.timestamp = r.timestamp /\ c.from_node = r.from_node
              /\ c.text = r.text
      [] OTHER ->
           \E c \in cdb[t] : c.node_id = r.node_id /\ c.timestamp = r.timestamp

\* C3 (as claimed, in the form a finite run refutes): every local change
\* reaches the center. No later cycle sends a row that is marked synced, so
\* whenever no cycle is in progress and every local row is marked synced, the
\* Central Store holds the values the last local mutation of each row wrote.
C3_DeliveredWhenQuiescent ==
    (pc = "idle" /\ \A x \in AllRows : x[2].synced_at # NullTime)
        => \A x \in AllRows : Delivered(x[1], x[2])

SyncedAt(db) == [t \in Tables |-> {<<RowKey(t, r), r.synced_at>> : r \in db[t]}]

\* C4: when the network call of sync_once fails (transport error, timeout or
\* a response that is not 2xx), sync_once raises SyncError and the synced_at
\* marker of every local row is left as it was.
C4_FailureMarksNothing ==
    [][(/\ pc = "await"
        /\ pc' # "await"
        /\ ~(net.handled /\ net.status \in 200..299 /\ pc' = "mark"))
          => /\ pc' = "idle"
             /\ result' = SyncError
             /\ SyncedAt(ldb') = SyncedAt(ldb)]_vars

C4_Witness ==
    /\ pc = "idle"
    /\ result = SyncError
    /\ is_sync_configured(config)
    /\ \E x \in AllRows : x[2].synced_at = NullTime

\* C8 (as claimed): after any number of lost acknowledgments and re-sends the
\* Central Store holds at most one row for each local position,
\* device_metrics and message row.
C8_AtMostOneCentralRow ==
    \A t \in AppendTables : Cardinality(cdb[t]) <= Cardinality(ldb[t])

----------------------------------------------------------------------------
(* Claims checked under SpecMerge                                          *)

Counts(db) == [t \in Tables |-> Cardinality(db[t])]

\* node and gateway fields without the last_seen / synced_at bookkeeping
DataFields(db) ==
    [nodes |-> {[node_id |-> r.node_id, long_name |-> r.long_name,
                 short_name |-> r.short_name, first_seen |-> r.first_seen,
                 collector_id |-> r.collector_id] : r \in db.nodes},
     gateways |-> {[host |-> r.host, port |-> r.port, node_id |-> r.node_id,
                    first_seen |-> r.first_seen,
                    collector_id |-> r.collector_id] : r \in db.gateways}]

\* C7 (as claimed): a batch submitted a second time, right after it was
\* accepted, leaves the row counts of every table and the node and gateway
\* data fields as the first submission left them.
C7_ResubmitIdempotent ==
    (merge.n > 0 /\ merge.repeat /\ merge.status = 200)
        => /\ Counts(cdb) = Counts(merge.prev)
           /\ DataFields(cdb) = DataFields(merge.prev)

\* the Central Store after request a, then request b, both handled without a
\* failure of the store
Apply2(db, a, b) == sync(sync(db, a, "none", merge.ts).db, b, "none", now).db

NodeField(db, id, f) == {r[f] : r \in {q \in db.nodes : q.node_id = id}}

\* the node row of request q for node id (none: the empty set)
ReqNode(q, id) == {r \in q.payload.data.nodes : r.node_id = id}

\* C9 (as claimed): for the last request A, the store S before it and any
\* request B, S+A+B and S+B+A hold the same long_name, short_name and
\* last_seen for every node.
C9_MergeCommutes ==
    merge.n > 0 =>
        \A b \in MergeRequests :
            LET ab == Apply2(merge.prev, merge.req, b)
                ba == Apply2(merge.prev, b, merge.req)
            IN \A id \in NodeIds :
                  \A f \in {"long_name", "short_name", "last_seen"} :
                      NodeField(ab, id, f) = NodeField(ba, id, f)

\* C9 (amended): S+A+B and S+B+A hold the same last_seen for every node, and
\* the same value of a coalesced field whenever A and B do not carry two
\* different non-null values for it.
C9_MergeCommutesWithoutConflict ==
    merge.n > 0 =>
        \A b \in MergeRequests :
            LET ab == Apply2(merge.prev, merge.req, b)
                ba == Apply2(merge.prev, b, merge.req)
            IN \A id \in NodeIds :
                  \A f \in {"long_name", "short_name", "last_seen"} :
                      (\/ f = "last_seen"
                       \/ \A ra \in ReqNode(merge.req, id), rb \in ReqNode(b, id) :
                             ra[f] = NULL \/ rb[f] = NULL \/ ra[f] = rb[f])
                        => NodeField(ab, id, f) = NodeField(ba, id, f)

\* an accepted request merged a node row with a newer last_seen into a stored
\* row, and some request carries an older one for the same node
C9_Witness ==
    /\ merge.n > 0
    /\ merge.status = 200
    /\ \E ra \in merge.req.payload.data.nodes, s \in merge.prev.nodes :
          /\ ra.node_id = s.node_id
          /\ ra.last_seen > s.last_seen
          /\ ra.long_name = NULL /\ s.long_name # NULL

\* C10: POST /sync is all-or-nothing. A request whose response is not 2xx
\* leaves the Central Store as it was; a request one of whose statements (or
\* whose commit) fails is not answered 2xx; a 2xx response means every table
\* write of the batch and the collectors update are in the Central Store.
C10_AllOrNothing ==
    merge.n > 0 =>
        LET payload == merge.req.payload
            ok == merge.status \in 200..299
        IN /\ ~ok => cdb = merge.prev
           /\ (merge.failAt \in Executed(payload) \cup {"commit"}
                \/ \E st \in Executed(payload) : ~statement_ok(st)) => ~ok
           /\ ok => \A st \in CentralTables :
                       cdb[st] = IF st \in Executed(payload)
                                 THEN write_step(st, merge.prev, payload, merge.ts)[st]
                                 ELSE merge.prev[st]

\* a request failed at the positions INSERT after its nodes upsert had run
C10_Witness ==
    /\ merge.n > 0
    /\ merge.status = 500
    /\ merge.failAt = "positions"
    /\ merge.req.payload.data.nodes # {}
    /\ merge.req.payload.data.positions # {}

----------------------------------------------------------------------------
(* Claims checked under SpecLife                                           *)

\* C5 (as claimed): start() calls alone, however they interleave, create at
\* most one loop thread, and no two sync_once executions overlap.
C5_OneLoopThread ==
    calls.stop = 0 =>
        /\ Len(threads) <= 1
        /\ Cardinality({t \in 1..Len(threads) : threads[t].st = "syncing"}) <= 1

\* C6 (as claimed): a loop thread that was running when stop() was called
\* begins no further sync_once, whatever start() and stop() calls follow.
C6_NoCycleAfterStop ==
    \A t \in 1..Len(threads) : ~threads[t].late

----------------------------------------------------------------------------
(* Claims about the merge rules, checked under SpecMerge                   *)

\* the stored node row s and the payload row n of the last request meet in
\* the ON CONFLICT branch of an accepted request
MergedPairs ==
    IF merge.n > 0 /\ merge.status = 200
    THEN {<<s, n>> \in merge.prev.nodes \X merge.req.payload.data.nodes :
              s.node_id = n.node_id}
    ELSE {}

\* the row of node id in the Central Store
CentralNode(id) == CHOOSE r \in cdb.nodes : r.node_id = id

\* C11: the central node merge is a coalesce. When an accepted batch carries
\* a row for a node the Central Store holds already, every field whose
\* incoming value is null keeps its stored value, and the node is still
\* stored once.
C11_NullKeepsStored ==
    \A p \in MergedPairs :
        /\ Cardinality({r \in cdb.nodes : r.node_id = p[1].node_id}) = 1
        /\ \A f \in {"long_name", "short_name"} :
              p[2][f] = NULL => CentralNode(p[1].node_id)[f] = p[1][f]

\* a stored long_name met an incoming null long_name and is still stored
C11_Witness ==
    \E p \in MergedPairs :
        /\ p[1].long_name # NULL
        /\ p[2].long_name = NULL
        /\ CentralNode(p[1].node_id).long_name = p[1].long_name

----------------------------------------------------------------------------
(* Claims checked under SpecLoop                                           *)

RECURSIVE Pow2(_)
Pow2(n) == IF n = 0 THEN 1 ELSE 2 * Pow2(n - 1)

\* C13 (as claimed): after N consecutive failed cycles the wait before the
\* next cycle is min(2^N, 300).
C13_WaitIsPowerOfTwo ==
    (loop.pc = "waiting" /\ loop.fails > 0)
        => loop.wait = Min2(Pow2(loop.fails), MaxBackoff)

\* C13 (amended): after N consecutive failed cycles the backoff is
\* min(2^N, 300), after a cycle that succeeded it is 1, and the wait before
\* the next cycle is the larger of sync_interval and the backoff.
C13_BackoffIsPowerOfTwo ==
    /\ loop.backoff = IF loop.fails = 0 THEN 1
                      ELSE Min2(Pow2(loop.fails), MaxBackoff)
    /\ loop.last \in {"ok", "noop"} => loop.fails = 0
    /\ loop.pc = "waiting" =>
          loop.wait = Max2(loop.interval, Min2(Pow2(loop.fails), MaxBackoff))

\* the ninth failure in a row: 2^9 is above the cap and the wait is 300, with
\* a sync_interval below it
C13_Witness ==
    /\ loop.pc = "waiting"
    /\ loop.fails = 9
    /\ loop.interval = 10
    /\ loop.wait = MaxBackoff

C15_FailureNeverEndsLoop ==
    [][/\ loop'.pc # "crashed"
       /\ (loop.pc = "syncing" /\ loop' # loop /\ raised(loop'.last) # "none") =>
              /\ loop'.pc = "waiting"
              /\ loop'.backoff = Min2(2 * loop.backoff, MaxBackoff)
       /\ (loop'.pc = "exited" /\ loop.pc # "exited") =>
              (loop.pc = "top" /\ stop_event)]_vars

\* after a cycle that failed in the Local Store a further cycle is running
C15_Witness ==
    /\ loop.pc = "syncing"
    /\ loop.last = "store"
    /\ loop.fails > 0

-----------------------------------------------------------------------------
(* Claims about the guards of sync_once (checked under Spec)               *)

\* the last SELECT of get_unsynced_records is about to run and no table
\* holds an unsynced row: the earlier SELECTs returned nothing and the last
\* table has none either
NothingToSync ==
    /\ pc = "read"
    /\ rd = Len(TableOrder)
    /\ \A t \in Tables : unsynced[t] = {}
    /\ \A r \in ldb[TableOrder[rd]] : r.synced_at # NullTime

\* a step of sync_once between the configuration check and the decision of
\* line 60
ReadStep == pc = "read" /\ (pc' # "read" \/ rd' # rd)

\* C16: when no table holds an unsynced row, sync_once returns a success
\* result with records_synced = 0, no request is put on the network, and no
\* local row changes while the cycle reads.
C16_NothingToSyncIsNoop ==
    [][ReadStep =>
          /\ ldb' = ldb
          /\ net = None
          /\ NothingToSync =>
                /\ pc' = "idle"
                /\ result' = [status |-> "ok", records_synced |-> 0]
                /\ net' = None
                /\ cdb' = cdb]_vars

\* a cycle found nothing to send on a store that holds rows, all of them
\* marked by an earlier cycle
C16_Witness ==
    /\ pc = "idle"
    /\ cycles = 2
    /\ result = [status |-> "ok", records_synced |-> 0]
    /\ net = None
    /\ AllRows # {}
    /\ \A x \in AllRows : x[2].synced_at # NullTime

\* the endpoint URL or the credential is missing
Unconfigured ==
    \/ config.sync_api_url \in {NULL, ""}
    \/ config.sync_api_key \in {NULL, ""}

\* C17: when the endpoint URL or the credential is missing, sync_once raises
\* the configuration error before it reads the Local Store and before any
\* network call: no SELECT has run, no request is in flight, and no local
\* or central row has changed when it ends.
C17_UnconfiguredFailsFast ==
    [][Unconfigured =>
          /\ pc' = "idle"
          /\ net' = None
          /\ cdb' = cdb
          /\ cycles' # cycles =>
                /\ result' = SyncError
                /\ ldb' = ldb
                /\ rd' = rd
                /\ unsynced' = unsynced]_vars

\* the configuration error was raised while the Local Store held a row
\* waiting to be sent
C17_Witness ==
    /\ Unconfigured
    /\ cycles > 0
    /\ result = SyncError
    /\ \E x \in AllRows : x[2].synced_at = NullTime

-----------------------------------------------------------------------------
(* Claims about the request checks of POST /sync (checked under SpecMerge)  *)

\* the Authorization header of the last request is absent, does not start
\* with "Bearer ", or carries a token that is not an API key
NotAuthenticated ==
    LET auth == merge.req.authorization
    IN \/ auth = NoHeader
       \/ auth.head # "Bearer "
       \/ auth.rest \notin ApiKeys

\* C18: a request whose Authorization header is absent, lacks the Bearer
\* prefix or carries a token that is not a configured API key is answered
\* with 401 and writes nothing to the Central Store.
C18_UnauthenticatedIs401 ==
    (merge.n > 0 /\ NotAuthenticated) =>
        /\ merge.status = 401
        /\ cdb = merge.prev

\* a request with a valid key behind a lower-case prefix was turned away
\* from a Central Store that already holds rows
C18_Witness ==
    /\ merge.n = 2
    /\ merge.req.authorization = Header("bearer ", "k1")
    /\ merge.status = 401
    /\ merge.prev.positions # {}
    /\ cdb = merge.prev

\* the last request was authenticated and its body is not a JSON document or
\* names no collector
BadBody ==
    /\ ~NotAuthenticated
    /\ \/ merge.req.body # "json"
       \/ ~Truthy(merge.req.payload.collector_id)

\* C19: an authenticated request whose body is not parseable JSON or whose
\* collector_id is missing is answered with 400 and writes nothing to the
\* Central Store, the collectors table included.
C19_BadBodyIs400 ==
    (merge.n > 0 /\ BadBody) =>
        /\ merge.status = 400
        /\ cdb = merge.prev

-----------------------------------------------------------------------------
(* Claims about the unsynced marker of the Local Store (under SpecStore)    *)

\* the rows of table t that get_unsynced_records returns
Returned(t) == UNION select_unsynced(ldb[t], SyncLimit)

\* C20: in every state a node or gateway row is returned by
\* get_unsynced_records exactly when its last upsert came after the last
\* mark_synced that named it: an upsert makes the row unsynced, mark_synced
\* with its identifier makes it synced, a further upsert makes it unsynced
\* again.
C20_UnsyncedIffUpsertedLast ==
    \A t \in {"nodes", "gateways"} : \A r \in ldb[t] :
        /\ r \in Returned(t) <=> <<t, RowKey(t, r)>> \notin marked.last
        /\ r \in Returned(t) <=> r.synced_at = NullTime

\* a node row and a gateway row were both marked; the node was upserted
\* again afterwards and is returned once more, the gateway is not
C20_Witness ==
    /\ \E r \in ldb.nodes :
          /\ <<"nodes", r.node_id>> \in marked.ever \ marked.last
          /\ r \in Returned("nodes")
    /\ \E g \in ldb.gateways :
          /\ <<"gateways", g.id>> \in marked.last
          /\ g \notin Returned("gateways")

-----------------------------------------------------------------------------
(* Claims about the Local Store operations (checked under SpecStore)        *)

\* C21: after any sequence of upsert_node calls each name of a node row is
\* the value of the most recent call that supplied a non-null value for it
\* (null while no call has): a call that passes null for a field never
\* overwrites a stored value.
C21_NodeFieldsAreLastGiven ==
    \A r \in ldb.nodes :
        /\ r.long_name = given.nodes[r.node_id].long_name
        /\ r.short_name = given.nodes[r.node_id].short_name

\* the last call passed null for long_name and a new short_name: the row
\* keeps the long_name of an earlier call
C21_Witness ==
    /\ call.op = "upsert_node"
    /\ call.long_name = NULL
    /\ call.short_name # NULL
    /\ \E r \in ldb.nodes :
          /\ r.node_id = call.node_id
          /\ r.long_name # NULL
          /\ r.short_name = call.short_name

\* C22: every upsert_gateway call with the same (host, port) returns the same
\* id, different keys have different ids, the store holds exactly one row
\* per key that was upserted, the row keeps the last non-null node_id that
\* was supplied, and the call leaves its row unsynced.
C22_GatewayIdIsStable ==
    /\ \A k \in StoreGatewayKeys :
          LET rows == {r \in ldb.gateways : r.host = k.host /\ r.port = k.port}
              ids == given.gateways[k].ids
          IN /\ Cardinality(ids) <= 1
             /\ {r.id : r \in rows} = ids
             /\ Cardinality(rows) = Cardinality(ids)
             /\ \A r \in rows : r.node_id = given.gateways[k].node_id
             /\ \A j \in StoreGatewayKeys \ {k} : given.gateways[j].ids \cap ids = {}
    /\ call.op = "upsert_gateway" =>
          \E r \in ldb.gateways :
             /\ r.host = call.key.host /\ r.port = call.key.port
             /\ r.id = call.ret
             /\ r.synced_at = NullTime

\* a gateway was upserted again after another key got a higher id: the call
\* passed no node_id, returned the first id and the row kept its node_id
C22_Witness ==
    /\ call.op = "upsert_gateway"
    /\ call.node_id = NULL
    /\ \E r, q \in ldb.gateways :
          /\ r.host = call.key.host /\ r.port = call.key.port
          /\ r.id = call.ret
          /\ r.node_id # NULL
          /\ q.id > r.id

\* C23: a mark_synced call sets synced_at to the current time for the rows
\* whose identifier (node_id for nodes, id for the other tables) is in the
\* list of their table, and changes nothing else: every other row and every
\* other field stays as it was, no row appears or disappears, and a call
\* with empty lists leaves the store as it was.
C23_MarkSyncedFrame ==
    [][(call'.op = "mark_synced" /\ ingested' # ingested) =>
          /\ \A t \in Tables :
                /\ {RowKey(t, r) : r \in ldb'[t]} = {RowKey(t, r) : r \in ldb[t]}
                /\ Cardinality(ldb'[t]) = Cardinality(ldb[t])
                /\ \A r \in ldb[t] : \E q \in ldb'[t] :
                      /\ RowKey(t, q) = RowKey(t, r)
                      /\ [q EXCEPT !.synced_at = NullTime]
                            = [r EXCEPT !.synced_at = NullTime]
                      /\ q.synced_at = IF RowKey(t, r) \in call'.records[t]
                                       THEN now ELSE r.synced_at
          /\ (\A t \in Tables : call'.records[t] = {}) => ldb' = ldb]_vars

\* mark_synced was called for one of two unsynced gateway rows: that one is
\* marked and the other is still unsynced
C23_Witness ==
    /\ call.op = "mark_synced"
    /\ \E r, q \in ldb.gateways :
          /\ r.id \in call.records.gateways
          /\ r.synced_at # NullTime
          /\ q.id \notin call.records.gateways
          /\ q.synced_at = NullTime

-----------------------------------------------------------------------------
(* Claims about a whole sync_once (checked under Spec)                      *)

\* get_unsynced_count: unsynced rows per table
get_unsynced_count(db) ==
    [t \in Tables |-> Cardinality({r \in db[t] : r.synced_at = NullTime})]

\* C24: when the collector does not write during the call (and no table
\* holds more than 1000 unsynced rows), the batch sync_once sends holds
\* exactly the unsynced rows of the five tables, and when the call succeeds
\* it returns their number as records_synced and get_unsynced_count is zero
\* for every table afterwards.
C24_SyncsEverything ==
    [][~mutated' =>
          /\ (pc = "read" /\ pc' = "await") =>
                /\ net'.req.payload.data =
                      [t \in Tables |-> {r \in ldb[t] : r.synced_at = NullTime}]
                /\ unsynced' = net'.req.payload.data
          /\ (pc = "mark" /\ pc' = "idle" /\ result'.status # StoreError.status) =>
                LET before == get_unsynced_count(ldb)
                IN /\ result'.status = "ok"
                   /\ result'.records_synced =
                         before.nodes + before.positions + before.device_metrics
                           + before.messages + before.gateways
                   /\ \A t \in Tables : get_unsynced_count(ldb')[t] = 0]_vars

\* a call without a concurrent write synced a node row and the rows of
\* another table
C24_Witness ==
    /\ pc = "idle"
    /\ ~mutated
    /\ result.status = "ok"
    /\ result.records_synced >= 2
    /\ ldb.nodes # {}
    /\ \A t \in Tables : get_unsynced_count(ldb)[t] = 0

-----------------------------------------------------------------------------
(* Claims about gateways and collectors in the Central Store (SpecMerge)    *)

\* the last request was authenticated, well-formed and named a collector
WellFormed ==
    /\ merge.n > 0
    /\ require_api_key(merge.req.authorization)
    /\ merge.req.body = "json"
    /\ Truthy(merge.req.payload.collector_id)

\* C25: every gateway a collector reports gets a Central Store row of its
\* own collector (two collectors reporting the same host and port produce
\* two rows), and a batch from one collector leaves the gateway rows of the
\* other collector as they were.
C25_GatewayRowPerCollector ==
    (WellFormed /\ merge.failAt = "none") =>
        LET cid == merge.req.payload.collector_id
        IN /\ \A g \in merge.req.payload.data.gateways :
                 \E r \in cdb.gateways :
                    r.host = g.host /\ r.port = g.port /\ r.collector_id = cid
           /\ {r \in cdb.gateways : r.collector_id # cid}
                = {r \in merge.prev.gateways : r.collector_id # cid}

\* C26: an accepted request leaves exactly one collectors row for its
\* collector_id, with last_seen = now and a record counter of 1 on first
\* contact and one more than before otherwise; a rejected or failed request
\* leaves the collectors table as it was; the rows of other collectors are
\* never changed.
C26_CollectorLiveness ==
    merge.n > 0 =>
        LET cid == merge.req.payload.collector_id
            old == {r \in merge.prev.collectors : r.collector_id = cid}
            new == {r \in cdb.collectors : r.collector_id = cid}
        IN IF merge.status = 200
           THEN /\ Cardinality(new) = 1
                /\ \A r \in new :
                      /\ r.last_seen = merge.ts
                      /\ r.record_count = IF old = {} THEN 1
                                          ELSE (CHOOSE o \in old : TRUE).record_count + 1
                      /\ \A o \in old : r.record_count > o.record_count
                /\ cdb.collectors \ new = merge.prev.collectors \ old
           ELSE cdb.collectors = merge.prev.collectors

\* the second accepted batch of a collector raised its counter to 2
C26_Witness ==
    /\ merge.n = 2
    /\ merge.status = 200
    /\ \E r \in cdb.collectors :
          /\ r.collector_id = merge.req.payload.collector_id
          /\ r.record_count = 2

-----------------------------------------------------------------------------
(* Claims about the standalone sync process (checked under SpecRun)         *)

\* C27: validate returns one error for each violated rule (endpoint missing
\* while sync is enabled, credential missing while sync is enabled, interval
\* below 10) and no other: every violated rule's error is in the list, every
\* error in the list is that of a violated rule, no error is listed twice,
\* and the list is empty exactly when no rule is violated.
C27_ValidateListsEveryViolation ==
    run.pc # "load" =>
        LET c == RunConfig
            RuleViolated ==
                [url      |-> c.sync_enabled /\ c.sync_api_url \in {NULL, ""},
                 key      |-> c.sync_enabled /\ c.sync_api_key \in {NULL, ""},
                 interval |-> c.sync_interval < 10]
            RuleError ==
                [url      |-> "SYNC_API_URL is required when sync is enabled",
                 key      |-> "SYNC_API_KEY is required when sync is enabled",
                 interval |-> "SYNC_INTERVAL must be at least 10 seconds"]
            violated == {r \in DOMAIN RuleError : RuleViolated[r]}
            errors == run.errors
        IN /\ {errors[i] : i \in 1..Len(errors)} = {RuleError[r] : r \in violated}
           /\ Len(errors) = Cardinality(violated)
           /\ (errors = <<>>) <=> (violated = {})

\* all three rules violated and all three reported together
C27_Witness ==
    /\ run.pc # "load"
    /\ Len(run.errors) = 3
    /\ sync_enabled
    /\ loop.interval < 10

\* C28: whenever validate reports an error, run_sync_service has raised
\* SyncError: the Local Store was never opened, the loop thread was never
\* started, and no sync_once ran.
C28_InvalidConfigFailsBeforeStart ==
    (run.pc # "load" /\ run.errors # <<>>) =>
        /\ run.pc = "raised"
        /\ ~run.db_open
        /\ ~run.looping
        /\ run.cycles = 0

\* the process failed on a configuration that enables sync without a
\* credential
C28_Witness ==
    /\ run.pc = "raised"
    /\ sync_enabled
    /\ ~Truthy(config.sync_api_key)
    /\ loop.interval >= MinInterval

-----------------------------------------------------------------------------
(* Claims about stop() (checked under SpecLife)                             *)

\* C29: stop() can be repeated and aborts nothing. Whenever a stop() call
\* returns while no other start() or stop() call is in progress, be it the
\* first call or a later one, before or after a start(), the attribute holds
\* no thread and
\* get_status reports the service as not running; no step of stop() changes
\* the state of a loop thread; and a sync_once in flight leaves that state
\* only by completing, whatever stop() calls are made meanwhile.
C29_StopRepeatableAndGentle ==
    [][/\ \A c \in Callers :
            (/\ callers[c] = "stop_join"
             /\ callers'[c] = "idle"
             /\ \A d \in Callers \ {c} : callers[d] = "idle")
            => (sync_thread' = 0 /\ ~running')
       /\ (\E c \in Callers : callers[c] \in {"stop_set", "stop_join"}
                                /\ callers'[c] # callers[c])
            => \A t \in 1..Len(threads) : threads'[t].st = threads[t].st
       /\ \A t \in 1..Len(threads) :
            threads[t].st = "syncing" => threads'[t].st \in {"syncing", "waiting"}
      ]_vars

\* a second stop() has returned while the sync_once that was in flight at
\* the first one is still running
C29_Witness ==
    /\ calls.start = 1
    /\ calls.stop = 2
    /\ \A c \in Callers : callers[c] = "idle"
    /\ sync_thread = 0
    /\ \E t \in 1..Len(threads) : threads[t].st = "syncing" /\ threads[t].stopped

-----------------------------------------------------------------------------
(* Claims about rows that are never changed or removed (checked under Spec) *)

-----------------------------------------------------------------------------
(* Claims about the collector identity (checked under SpecRun)              *)

\* C31 (as claimed): with no identifier supplied by the environment, every
\* run of the process has the collector_id of the first run, also when the
\* first run could not write the identifier file.
C31_IdentityStable ==
    (run.env_id = NULL /\ run.collector_id # NULL) => run.collector_id = run.first_id

-----------------------------------------------------------------------------
(* Claims about the timestamp range of a batch (checked under Spec)         *)

\* C32: in the batch sync_once sends, local_timestamps.oldest and .newest
\* are the minimum and the maximum of the timestamp of every row that has a
\* timestamp field and of the last_seen of every other row, so oldest is not
\* after newest; a batch without rows has neither; and the batch holds every
\* row that was read, whatever the range is.
C32_RangeIsMinMax ==
    [][(pc = "read" /\ pc' = "await") =>
          LET payload == net'.req.payload
              rows == UNION {payload.data[t] : t \in Tables}
              values == {r.timestamp : r \in {q \in rows : "timestamp" \in DOMAIN q}}
                        \cup {r.last_seen :
                                 r \in {q \in rows : "timestamp" \notin DOMAIN q}}
              lo == CHOOSE m \in values : \A v \in values : m <= v
              hi == CHOOSE m \in values : \A v \in values : m >= v
              range == payload.local_timestamps
          IN /\ values # {}
             /\ range.oldest = isoformat(lo)
             /\ range.newest = isoformat(hi)
             /\ lo <= hi
             /\ payload.data = unsynced'
             /\ local_timestamps(EmptyTables) = [oldest |-> NULL, newest |-> NULL]
      ]_vars

\* a batch in flight holds a node row last seen before another of its rows
\* was written
C32_Witness ==
    /\ pc = "await"
    /\ net # None
    /\ net.req.payload.data.nodes # {}
    /\ net.req.payload.local_timestamps.oldest = isoformat(1)
    /\ net.req.payload.local_timestamps.newest = isoformat(2)

-----------------------------------------------------------------------------
(* Claims about a backlog larger than the limit (checked under SpecDrain)   *)

\* C33: get_unsynced_records(limit) returns at most limit rows of each
\* table, all of them unsynced; a sync_once that succeeds leaves fewer
\* unsynced rows in every table that had any (limit fewer where there were
\* more than limit); and when the calls go on succeeding, every table ends
\* with no unsynced row and stays so.
C33_BacklogDrains ==
    /\ [][(call'.op = "sync_once" /\ result'.status = "ok" /\ ldb' # ldb) =>
            LET before == get_unsynced_count(ldb)
                after == get_unsynced_count(ldb')
            IN \A t \in Tables :
                  /\ unsynced'[t] \subseteq {r \in ldb[t] : r.synced_at = NullTime}
                  /\ Cardinality(unsynced'[t]) <= call'.limit
                  /\ before[t] > 0 => after[t] < before[t]
                  /\ before[t] > call'.limit => after[t] = before[t] - call'.limit
         ]_vars
    /\ <>[](\A t \in Tables : get_unsynced_count(ldb)[t] = 0)

\* a successful call took `limit` rows of a table that held more, and rows
\* of it are left for the next call
C33_Witness ==
    /\ call.op = "sync_once"
    /\ result.status = "ok"
    /\ \E t \in Tables :
          /\ Cardinality(unsynced[t]) = call.limit
          /\ get_unsynced_count(ldb)[t] > 0
          /\ \E r \in ldb[t] : r.synced_at # NullTime

-----------------------------------------------------------------------------
(* Claims about the range of the backoff (checked under SpecLoop)           *)

\* C34: the backoff of the loop is at least 1 and at most 300 in every
\* state, and the timeout of every wait, which is how long a wait lasts that
\* the stop signal does not end, is at least sync_interval.
C34_BackoffInRange ==
    /\ 1 <= loop.backoff
    /\ loop.backoff <= 300
    /\ (loop.pc = "waiting" \/ loop.ended = "timeout") => loop.wait >= loop.interval

\* a wait ran to its timeout with the backoff at its ceiling, above
\* sync_interval
C34_Witness ==
    /\ loop.ended = "timeout"
    /\ loop.backoff = 300
    /\ loop.interval < loop.backoff
    /\ loop.wait = 300

\* C35: a sync_once that finds nothing to sync returns normally, so the loop
\* takes the cycle for a success: the backoff is 1 after it, also when it
\* was larger because the cycles before it failed.
C35_NoopResetsBackoff ==
    [][(loop.pc = "syncing" /\ loop' # loop /\ loop'.last = "noop") =>
          /\ loop'.pc = "waiting"
          /\ loop'.backoff = 1
          /\ loop'.fails = 0
          /\ loop'.wait = Max2(loop.interval, 1)]_vars

\* a cycle with nothing to sync brought the backoff from 4 back to 1
C35_Witness ==
    /\ loop.pc = "waiting"
    /\ loop.last = "noop"
    /\ loop.before = 4
    /\ loop.backoff = 1

-----------------------------------------------------------------------------
(* Claims about rows that were marked synced (checked under Spec)           *)

\* C36 (as claimed): a row of positions, device_metrics or messages that is
\* marked synced stays marked and is in no batch read afterwards, and no row
\* of these tables is in two acknowledged batches.
C36_AtMostOneAckedBatch ==
    [][/\ \A t \in AppendTables :
            /\ \A r \in ldb[t] :
                  r.synced_at # NullTime =>
                      \E q \in ldb'[t] : q.id = r.id /\ q.synced_at # NullTime
            /\ \A r \in unsynced'[t] :
                  \A q \in ldb[t] : q.id = r.id => q.synced_at = NullTime
       /\ (pc = "await" /\ pc' = "mark") =>
            \A t \in AppendTables :
                \A r \in unsynced[t] : <<t, r.id>> \notin acked
      ]_vars

-----------------------------------------------------------------------------
(* Claims about the API key check (checked under SpecAuth)                  *)

\* C37 (as claimed): a service whose API_KEYS is unset or empty answers 401
\* to every request to a protected endpoint, whatever its Authorization
\* header.
C37_NoKeysNoAccess ==
    (merge.n > 0 /\ merge.setting = <<>>) => merge.status = 401

-----------------------------------------------------------------------------
(* Claims about get_status (checked under SpecLife)                         *)

\* C38 (as claimed): once every start() and stop() call has returned,
\* get_status().running is not false while a loop thread of this service is
\* executing a cycle.
C38_RunningWhileCycling ==
    ((\A c \in Callers : callers[c] = "idle")
        /\ \E t \in 1..Len(threads) : threads[t].st = "syncing") => running

-----------------------------------------------------------------------------
(* Claims about the order of delivery (checked under Spec)                  *)

\* C39 (as claimed): for every position or device_metrics row of a batch
\* that sync_once sends, the node row it references (when the Local Store
\* holds one) is in the same batch or was in an earlier acknowledged batch.
C39_NodeDeliveredFirst ==
    net # None =>
        \A t \in {"positions", "device_metrics"} :
           \A r \in net.req.payload.data[t] :
              (\E n \in ldb.nodes : n.node_id = r.node_id) =>
                 \/ \E n \in net.req.payload.data.nodes : n.node_id = r.node_id
                 \/ <<"nodes", r.node_id>> \in acked

-----------------------------------------------------------------------------
(* Claims about the connections of the collector (checked under            *)
(* SpecCollector)                                                           *)

\* C40 (as claimed): once every connect, disconnect and stop call has
\* returned, at most one interface is open per key, and interfaces and
\* gateway_ids have the same keys.
C40_OneInterfacePerKey ==
    (\A c \in Callers : collector.th[c].pc = "idle") =>
        /\ \A k \in CollectorKeys :
              Cardinality({i \in collector.opened : i.key = k}) <= 1
        /\ DOMAIN collector.interfaces = DOMAIN collector.gateway_ids

====
